---- MODULE Spec2Model ----
(***************************************************************************)
(* Solar analyzer: the sync routes, the create routes, the read routes and  *)
(* the statistics route (src/src/solar_analyzer/api/routes.py), the PVS6   *)
(* device payload normalizer and polling loop (api/pvs6_local.py), the     *)
(* historical importer (src/import_historical_data.py) over the two tables *)
(* of data/models.py, the live-update channel (api/websockets.py) and the  *)
(* database log handler (logging_db_handler.py).                           *)
(*                                                                         *)
(* Numbers.  Power in kW is held in tenths of a kW (55 is 5.5 kW), power   *)
(* in W in whole watts, instants in whole hours since an epoch.            *)
(***************************************************************************)
EXTENDS Integers, Sequences, FiniteSets, TLC

VARIABLES
    now,              \* the wall clock read by datetime.now()
    solar_readings,   \* committed rows of table solar_readings
    panel_readings,   \* committed rows of table panel_readings
    pc,               \* per sync call: its position in the handler
    pending,          \* per sync call: rows db.add()-ed to its session, in order
    status,           \* per sync call: HTTP status of the response, 0 while running
    detail,           \* per sync call: the exception the call ended with, "" if none
    payload,          \* per sync call: what it fetched (device list / currentPower)
    conn_tests,       \* per sync call: the results of its test_connection() calls
    fetches,          \* per sync call: number of data fetches made after the test
    commits,          \* per sync call: number of db.commit() calls made
    http_response,    \* the response to the latest create/stats request
    readings_data,    \* import: the fetched energyData series
    item_index,       \* import: number of series items the loop has processed
    imported_count,   \* import: the counter of that name
    skipped_count,    \* import: the counter of that name
    outcome,          \* import: how the run ended, "" while running
    parse_input,      \* normalizer: the devices of the payload given to parse_device_data
    parse_result,     \* normalizer: what parse_device_data returned or that it raised
    created,          \* the readings create_reading has answered with, as submitted
    active_connections, \* ConnectionManager.active_connections
    link,             \* per socket: the transport: "open", "stalled" or "broken"
    ep,               \* per socket: position of its websocket_endpoint coroutine
    inbox,            \* per socket: client frames not yet received by the endpoint
    handled,          \* per socket: what receive_text gave the endpoint, in order
    reply,            \* per socket: the frame the endpoint is about to send, "" if none
    sent,             \* per socket: the frames delivered to the client, in order
    bc,               \* per broadcast call: its position and local variables
    monitor,          \* monitor_production: its position and what its iterations did
    log_queue,        \* DatabaseLogHandler.log_queue: the records emitted, not yet taken
    batch,            \* log worker: the records of its local list `batch`
    shutdown_flag,    \* DatabaseLogHandler.shutdown_flag
    worker,           \* log worker thread: its position in _worker
    written,          \* log records handed to _write_logs_to_db
    emitted           \* log records put on the queue by emit()

imp_vars == <<readings_data, item_index, imported_count, skipped_count, outcome>>
sync_vars == <<status, detail, payload, conn_tests, fetches, commits>>

\* The state of the routes and of the import script.
route_vars == <<now, solar_readings, panel_readings, pc, pending, sync_vars,
                http_response, imp_vars>>

parse_vars == <<parse_input, parse_result>>

\* The state of the components outside the routes and the import script.
ws_vars == <<active_connections, link, ep, inbox, handled, reply, sent, bc>>

\* The state of the log handler.
log_vars == <<log_queue, batch, shutdown_flag, worker, written, emitted>>

\* The state of the background activities: the polling loop and the log handler.
bg_vars == <<monitor, log_vars>>

side_vars == <<parse_vars, created, ws_vars, bg_vars>>

vars == <<now, solar_readings, panel_readings, pc, pending, status, detail, payload,
          conn_tests, fetches, commits, http_response,
          readings_data, item_index, imported_count, skipped_count, outcome,
          parse_input, parse_result, created,
          active_connections, link, ep, inbox, handled, reply, sent, bc,
          monitor, log_queue, batch, shutdown_flag, worker, written, emitted>>

----------------------------------------------------------------------------
(* Bounds of the model.                                                    *)

MaxTime == 1

----------------------------------------------------------------------------
(* Optional values (Python None) and raw JSON values.                      *)

None == [some |-> FALSE, v |-> 0]
Some(x) == [some |-> TRUE, v |-> x]

\* A raw JSON field of an upstream payload: absent from the object, null,
\* a number (or numeric string), or a string that is not a number.
JAbsent == [k |-> "absent", n |-> 0]
JNull == [k |-> "null", n |-> 0]
JNum(x) == [k |-> "num", n |-> x]
JBad == [k |-> "bad", n |-> 0]

\* Results of a computation that may raise.
Raise == [err |-> TRUE, v |-> 0]
Ok(x) == [err |-> FALSE, v |-> x]

\* dict.get(key, default) on a raw field: the default only when the key is absent.
DictGet(field, default) == IF field.k = "absent" THEN default ELSE field

\* float(x): ValueError on a non-numeric string, TypeError on None.
Float(field) == IF field.k = "num" THEN Ok(field.n) ELSE Raise

\* max(a, b) and abs(a) of Python.
Max(a, b) == IF a >= b THEN a ELSE b
Abs(a) == IF a < 0 THEN 0 - a ELSE a

----------------------------------------------------------------------------
(* PVS6LocalAPI.parse_device_data.                                         *)

\* "PRODUCTION" in subtype.upper(), "CONSUMPTION" in subtype.upper().
SubtypeHasProduction(subtype) ==
    subtype \in {"GROSS_PRODUCTION_SITE", "PVS-PRODUCTION-METER", "pvs5-meter-production"}
SubtypeHasConsumption(subtype) ==
    subtype \in {"NET_CONSUMPTION_LOADSIDE", "pvs5-meter-consumption"}

EmptyParse ==
    [err |-> FALSE, power_meters |-> <<>>, inverters |-> <<>>,
     total_power_kw |-> 0, consumption_kw |-> 0, grid_kw |-> 0]

\* The iteration with a production meter's power taken as it comes, the
\* latest meter replacing the figure of the earlier ones.
ParseDeviceLastMeter(result, device) ==
    IF result.err THEN result
    ELSE IF device.DEVICE_TYPE = "Power Meter" THEN
        LET p == Float(DictGet(device.p_3phsum_kw, JNum(0)))
            v == Float(DictGet(device.voltage, JNum(0)))
        IN  IF p.err \/ v.err THEN [result EXCEPT !.err = TRUE]
            ELSE LET meter == [serial |-> device.SERIAL, subtype |-> device.subtype,
                               power_kw |-> p.v, voltage_v |-> v.v]
                     added == [result EXCEPT !.power_meters = Append(@, meter)]
                 IN  IF SubtypeHasProduction(device.subtype)
                     THEN [added EXCEPT !.total_power_kw = p.v]
                     ELSE IF SubtypeHasConsumption(device.subtype)
                     THEN [added EXCEPT !.consumption_kw = Abs(p.v)]
                     ELSE added
    ELSE IF device.DEVICE_TYPE = "Inverter" THEN
        LET p == Float(DictGet(device.p_3phsum_kw, JNum(0)))
            v == Float(DictGet(device.voltage, JNum(0)))
        IN  IF p.err \/ v.err THEN [result EXCEPT !.err = TRUE]
            ELSE LET inverter == [serial |-> device.SERIAL,
                                  power_w |-> (p.v * 1000) \div 10,
                                  power_kw |-> p.v, voltage_v |-> v.v]
                 IN  [result EXCEPT !.inverters = Append(@, inverter)]
    ELSE result   \* "PVS" is informational, any other type is ignored

\* The iteration with a consumption meter's power taken with its sign.
ParseDeviceSignedConsumption(result, device) ==
    IF result.err THEN result
    ELSE IF device.DEVICE_TYPE = "Power Meter" THEN
        LET p == Float(DictGet(device.p_3phsum_kw, JNum(0)))
            v == Float(DictGet(device.voltage, JNum(0)))
        IN  IF p.err \/ v.err THEN [result EXCEPT !.err = TRUE]
            ELSE LET meter == [serial |-> device.SERIAL, subtype |-> device.subtype,
                               power_kw |-> p.v, voltage_v |-> v.v]
                     added == [result EXCEPT !.power_meters = Append(@, meter)]
                 IN  IF SubtypeHasProduction(device.subtype)
                     THEN [added EXCEPT !.total_power_kw = Max(@, p.v)]
                     ELSE IF SubtypeHasConsumption(device.subtype)
                     THEN [added EXCEPT !.consumption_kw = p.v]
                     ELSE added
    ELSE IF device.DEVICE_TYPE = "Inverter" THEN
        LET p == Float(DictGet(device.p_3phsum_kw, JNum(0)))
            v == Float(DictGet(device.voltage, JNum(0)))
        IN  IF p.err \/ v.err THEN [result EXCEPT !.err = TRUE]
            ELSE LET inverter == [serial |-> device.SERIAL,
                                  power_w |-> (p.v * 1000) \div 10,
                                  power_kw |-> p.v, voltage_v |-> v.v]
                 IN  [result EXCEPT !.inverters = Append(@, inverter)]
    ELSE result   \* "PVS" is informational, any other type is ignored

\* One iteration of the loop over devices: result is the accumulator so far.
ParseDevice(result, device) ==
    IF result.err THEN result
    ELSE IF device.DEVICE_TYPE = "Power Meter" THEN
        LET p == Float(DictGet(device.p_3phsum_kw, JNum(0)))
            v == Float(DictGet(device.voltage, JNum(0)))
        IN  IF p.err \/ v.err THEN [result EXCEPT !.err = TRUE]
            ELSE LET meter == [serial |-> device.SERIAL, subtype |-> device.subtype,
                               power_kw |-> p.v, voltage_v |-> v.v]
                     added == [result EXCEPT !.power_meters = Append(@, meter)]
                 IN  IF SubtypeHasProduction(device.subtype)
                     THEN [added EXCEPT !.total_power_kw = Max(@, p.v)]
                     ELSE IF SubtypeHasConsumption(device.subtype)
                     THEN [added EXCEPT !.consumption_kw = Abs(p.v)]
                     ELSE added
    ELSE IF device.DEVICE_TYPE = "Inverter" THEN
        LET p == Float(DictGet(device.p_3phsum_kw, JNum(0)))
            v == Float(DictGet(device.voltage, JNum(0)))
        IN  IF p.err \/ v.err THEN [result EXCEPT !.err = TRUE]
            ELSE LET inverter == [serial |-> device.SERIAL,
                                  power_w |-> (p.v * 1000) \div 10,
                                  power_kw |-> p.v, voltage_v |-> v.v]
                 IN  [result EXCEPT !.inverters = Append(@, inverter)]
    ELSE result   \* "PVS" is informational, any other type is ignored

RECURSIVE ParseDevices(_, _)
ParseDevices(result, devices) ==
    IF devices = <<>> THEN result
    ELSE ParseDevices(ParseDevice(result, Head(devices)), Tail(devices))

\* parse_device_data without the grid computation that follows the loop.
parse_device_data_stale_grid(devices) == ParseDevices(EmptyParse, devices)

parse_device_data(devices) ==
    LET r == ParseDevices(EmptyParse, devices)
    IN  IF r.err THEN r ELSE [r EXCEPT !.grid_kw = r.total_power_kw - r.consumption_kw]

----------------------------------------------------------------------------
(* data/schemas.py: construction of the create schemas, with validation.   *)

\* SolarReadingCreate(...): production_kw >= 0, consumption_kw >= 0,
\* battery_soc unset or in [0, 100] (in whole percent).
SolarReadingCreate(timestamp, production_kw, consumption_kw, grid_kw, battery_kw, battery_soc) ==
    IF production_kw < 0 \/ consumption_kw < 0
       \/ (battery_soc.some /\ (battery_soc.v < 0 \/ battery_soc.v > 100))
    THEN Raise
    ELSE Ok([timestamp |-> timestamp, production_kw |-> production_kw,
             consumption_kw |-> consumption_kw, grid_kw |-> grid_kw,
             battery_kw |-> battery_kw, battery_soc |-> battery_soc])

\* PanelReadingCreate(...): power_w >= 0, voltage_v unset or >= 0.
PanelReadingCreate(timestamp, panel_id, serial_number, power_w, voltage_v) ==
    IF power_w < 0 \/ (voltage_v.some /\ voltage_v.v < 0)
    THEN Raise
    ELSE Ok([timestamp |-> timestamp, panel_id |-> panel_id,
             serial_number |-> serial_number, power_w |-> power_w,
             voltage_v |-> voltage_v])

----------------------------------------------------------------------------
(* data/models.py: the two tables and their unique constraints; a session  *)
(* commit inserts all pending rows in one transaction.                     *)

SolarTable == "solar_readings"
PanelTable == "panel_readings"

\* SolarReadingModel(**reading.model_dump()) / PanelReadingModel(...), then db.add.
\* `by` records the call that staged the row (it stands for the row identity).
Staged(tbl, reading, by) ==
    [tbl |-> tbl, timestamp |-> reading.timestamp,
     panel_id |-> IF tbl = PanelTable THEN reading.panel_id ELSE "",
     row |-> reading, by |-> by]

\* uq_solar_reading_timestamp: (timestamp); uq_panel_reading: (timestamp, panel_id).
UniqueKey(e) == <<e.tbl, e.timestamp, e.panel_id>>

\* The INSERTs of a flush violate a unique constraint.
UniqueViolation(pend, stored) ==
    \/ \E i, j \in DOMAIN pend : i < j /\ UniqueKey(pend[i]) = UniqueKey(pend[j])
    \/ \E i \in DOMAIN pend : \E e \in stored : UniqueKey(pend[i]) = UniqueKey(e)

\* Commit without the unique constraints of the tables.
CommitUnconstrained(pend, stored, db_up) ==
    IF ~db_up THEN [err |-> TRUE, exc |-> "OperationalError", stored |-> stored]
    ELSE [err |-> FALSE, exc |-> "", stored |-> stored \cup {pend[i] : i \in DOMAIN pend}]

\* Commit with every row inserted in a transaction of its own: the rows
\* before the first violation stay stored.
RECURSIVE InsertEach(_, _)
InsertEach(pend, stored) ==
    IF pend = <<>> THEN [err |-> FALSE, exc |-> "", stored |-> stored]
    ELSE IF UniqueViolation(<<Head(pend)>>, stored)
    THEN [err |-> TRUE, exc |-> "IntegrityError", stored |-> stored]
    ELSE InsertEach(Tail(pend), stored \cup {Head(pend)})

CommitRowByRow(pend, stored, db_up) ==
    IF ~db_up THEN [err |-> TRUE, exc |-> "OperationalError", stored |-> stored]
    ELSE InsertEach(pend, stored)

\* Commit as an upsert: a pending row replaces the stored row of its key.
CommitReplacing(pend, stored, db_up) ==
    IF ~db_up THEN [err |-> TRUE, exc |-> "OperationalError", stored |-> stored]
    ELSE LET rows == {pend[i] : i \in DOMAIN pend}
             kept == {e \in stored : \A r \in rows : UniqueKey(r) # UniqueKey(e)}
         IN  [err |-> FALSE, exc |-> "", stored |-> kept \cup rows]

\* await db.commit(): all pending rows become stored, or (store unreachable,
\* or IntegrityError) the transaction is rolled back and the call raises.
Commit(pend, stored, db_up) ==
    IF ~db_up THEN [err |-> TRUE, exc |-> "OperationalError", stored |-> stored]
    ELSE IF UniqueViolation(pend, stored)
    THEN [err |-> TRUE, exc |-> "IntegrityError", stored |-> stored]
    ELSE [err |-> FALSE, exc |-> "", stored |-> stored \cup {pend[i] : i \in DOMAIN pend}]

Stored == solar_readings \cup panel_readings
OfTable(rows, tbl) == {e \in rows : e.tbl = tbl}

----------------------------------------------------------------------------
(* The calls in flight: two local sync requests, one cloud sync request.   *)

LocalCalls == {"L1", "L2"}
CloudCalls == {"K1"}
SyncCalls == LocalCalls \cup CloudCalls
Importer == "I1"
Calls == SyncCalls \cup {Importer}

\* `except Exception as e: raise HTTPException(status_code=500, ...)` around the
\* whole body of both sync routes: whatever was raised inside the try, the
\* HTTPException(503) of the connectivity test included, leaves the route as a 500.
SyncExcept(exc) == 500

\* Device records the local gateway may report (p_3phsum_kw in tenths of a kW).
Device(type, serial, subtype, p, v) ==
    [DEVICE_TYPE |-> type, SERIAL |-> serial, subtype |-> subtype,
     p_3phsum_kw |-> p, voltage |-> v]

PVS6 == Device("PVS", "PVS6", "", JAbsent, JAbsent)
ProductionMeter == Device("Power Meter", "M-p", "GROSS_PRODUCTION_SITE", JNum(55), JAbsent)
ConsumptionMeter == Device("Power Meter", "M-c", "NET_CONSUMPTION_LOADSIDE", JNum(-20), JAbsent)
Inverter1 == Device("Inverter", "INV1", "", JNum(3), JNum(240))
Inverter2 == Device("Inverter", "INV2", "", JNum(2), JNum(240))
NightInverter == Device("Inverter", "INV3", "", JNum(-1), JNum(240))
GarbledInverter == Device("Inverter", "INV3", "", JBad, JNum(240))

\* A production meter that reads below zero, as at night.
NightMeter == Device("Power Meter", "M-n", "GROSS_PRODUCTION_SITE", JNum(-1), JAbsent)

\* The device lists a sync may fetch: panels only; a meter and panels; one
\* inverter reporting negative power; no inverter; a serial reported twice;
\* a numeric field that is not a number; the meters at night.
SyncDeviceLists ==
    { [devices |-> devices] : devices \in
        { <<PVS6, ProductionMeter, Inverter1>>,
          <<ProductionMeter, ConsumptionMeter, Inverter1, Inverter2>>,
          <<ProductionMeter, Inverter1, NightInverter>>,
          <<ProductionMeter, ConsumptionMeter>>,
          <<Inverter1, Inverter1>>,
          <<ProductionMeter, GarbledInverter>>,
          <<NightMeter, ConsumptionMeter>> } }

\* The panel loop left after its first iteration.
StagePanelsFirstOnly(acc, inverters, t, c) ==
    IF acc.err \/ inverters = <<>> THEN acc
    ELSE LET inverter == Head(inverters)
             panel == PanelReadingCreate(t, inverter.serial, Some(inverter.serial),
                                         inverter.power_w, Some(inverter.voltage_v))
         IN  IF panel.err THEN [acc EXCEPT !.err = TRUE]
             ELSE [acc EXCEPT !.v = Append(@, Staged(PanelTable, panel.v, c))]

\* routes.py 265-277: one PanelReadingCreate per inverter, each db.add()-ed;
\* a construction that raises leaves the loop (and the try block).
RECURSIVE StagePanels(_, _, _, _)
StagePanels(acc, inverters, t, c) ==
    IF acc.err \/ inverters = <<>> THEN acc
    ELSE LET inverter == Head(inverters)
             panel == PanelReadingCreate(t, inverter.serial, Some(inverter.serial),
                                         inverter.power_w, Some(inverter.voltage_v))
         IN  IF panel.err THEN [acc EXCEPT !.err = TRUE]
             ELSE StagePanels([acc EXCEPT !.v = Append(@, Staged(PanelTable, panel.v, c))],
                              Tail(inverters), t, c)

\* routes.py 254-277: the rows a local sync stages from the parsed data; t is
\* datetime.now() of the reading, t2 datetime.now() of the panel readings.
LocalStage(data, t, t2, c) ==
    LET reading == SolarReadingCreate(t, data.total_power_kw, data.consumption_kw,
                                      data.grid_kw, None, None)
    IN  IF reading.err THEN Raise
        ELSE StagePanels(Ok(<<Staged(SolarTable, reading.v, c)>>), data.inverters, t2, c)

\* The route returns its success response.
Succeed(c) ==
    /\ pc' = [pc EXCEPT ![c] = "Done"]
    /\ status' = [status EXCEPT ![c] = 200]
    /\ detail' = detail

\* `exc` is raised inside the try block of the route.
Fail(c, exc) ==
    /\ pc' = [pc EXCEPT ![c] = "Done"]
    /\ status' = [status EXCEPT ![c] = SyncExcept(exc)]
    /\ detail' = [detail EXCEPT ![c] = exc]

\* The connectivity test with its result ignored: the call goes on to fetch.
test_connection_ignored(c) ==
    /\ pc[c] = "Connecting"
    /\ \E reachable \in BOOLEAN :
         conn_tests' = [conn_tests EXCEPT ![c] = Append(@, reachable)]
    /\ pc' = [pc EXCEPT ![c] = "Fetching"]
    /\ UNCHANGED side_vars
    /\ UNCHANGED <<now, solar_readings, panel_readings, pending, status, detail, payload,
                   fetches, commits, http_response, imp_vars>>

\* routes.py 245-248 / 208-213: await api.test_connection(), once.
test_connection(c) ==
    /\ pc[c] = "Connecting"
    /\ \E reachable \in BOOLEAN :
         /\ conn_tests' = [conn_tests EXCEPT ![c] = Append(@, reachable)]
         /\ IF reachable
            THEN pc' = [pc EXCEPT ![c] = "Fetching"] /\ UNCHANGED <<status, detail>>
            ELSE Fail(c, "HTTPException(503)")
    /\ UNCHANGED side_vars
    /\ UNCHANGED <<now, solar_readings, panel_readings, pending, payload, fetches, commits,
                   http_response, imp_vars>>

\* routes.py 250-277: get_device_list, parse_device_data, then the staging
\* of the reading and the panel readings (no await in between).
sync_local_data_fetch(c) ==
    /\ c \in LocalCalls
    /\ pc[c] = "Fetching"
    /\ fetches' = [fetches EXCEPT ![c] = @ + 1]
    /\ \/ /\ Fail(c, "HTTPError")              \* the GET raised
          /\ UNCHANGED <<now, pending, payload>>
       \/ \E device_list \in SyncDeviceLists, t2 \in now..(IF now < MaxTime THEN now + 1 ELSE now) :
            LET data == parse_device_data(device_list.devices)
                staged == IF data.err THEN Raise ELSE LocalStage(data, now, t2, c)
            IN  /\ now' = t2
                /\ payload' = [payload EXCEPT ![c] = device_list]
                /\ IF data.err THEN Fail(c, "ValueError") /\ pending' = pending
                   ELSE IF staged.err THEN Fail(c, "ValidationError") /\ pending' = pending
                   ELSE /\ pc' = [pc EXCEPT ![c] = "Persisting"]
                        /\ pending' = [pending EXCEPT ![c] = staged.v]
                        /\ UNCHANGED <<status, detail>>
    /\ UNCHANGED side_vars
    /\ UNCHANGED <<solar_readings, panel_readings, conn_tests, commits, http_response,
                   imp_vars>>

\* Items of the cloud API: data.site.currentPower, data.site.energyData[].
\* Power fields are raw JSON values in watts; the timestamp is a string that
\* is ISO-8601 for instant n (k = "iso") or is not ISO-8601 (k = "bad").
JIso(n) == [k |-> "iso", n |-> n]

CloudItem(timestamp, production, consumption, grid, battery, batterySOC) ==
    [timestamp |-> timestamp, production |-> production, consumption |-> consumption,
     grid |-> grid, battery |-> battery, batterySOC |-> batterySOC]

\* current["timestamp"] then datetime.fromisoformat: KeyError, TypeError, ValueError.
fromisoformat(field) == IF field.k = "iso" THEN Ok(field.n) ELSE Raise

\* x / 1000 of a raw value in watts, as kW: TypeError on None or a string.
WattsToKw(field) == IF field.k = "num" THEN Ok((field.n * 10) \div 1000) ELSE Raise

\* pydantic coercion of an optional float field: None stays None.
OptionalFloat(field) ==
    IF field.k = "null" THEN Ok(None)
    ELSE IF field.k = "num" THEN Ok(Some(field.n)) ELSE Raise

\* routes.py 221-228: the reading built from currentPower.
CloudReading(current) ==
    LET timestamp == fromisoformat(current.timestamp)
        production_kw == WattsToKw(DictGet(current.production, JNum(0)))
        consumption_kw == WattsToKw(DictGet(current.consumption, JNum(0)))
        grid_kw == WattsToKw(DictGet(current.grid, JNum(0)))
        battery_kw == IF current.battery.k # "absent"
                      THEN WattsToKw(DictGet(current.battery, JNum(0)))
                      ELSE Ok(None)
        battery_soc == IF current.batterySOC.k # "absent"
                       THEN OptionalFloat(current.batterySOC)
                       ELSE Ok(None)
    IN  IF timestamp.err \/ production_kw.err \/ consumption_kw.err \/ grid_kw.err
           \/ battery_kw.err \/ battery_soc.err
        THEN Raise
        ELSE SolarReadingCreate(timestamp.v, production_kw.v, consumption_kw.v, grid_kw.v,
                                IF current.battery.k # "absent" THEN Some(battery_kw.v) ELSE None,
                                battery_soc.v)

\* What get_current_power may answer as data.site.currentPower.
CurrentPowers ==
    { CloudItem(ts, JNum(5500), JNum(2000), JNum(3500), battery, soc) :
        ts \in {JIso(0), JBad},
        battery \in {JAbsent, JNull, JNum(0)},
        soc \in {JAbsent} }
    \cup { CloudItem(JIso(0), JNum(5500), JNum(2000), JNum(3500), JNum(1500), JNum(80)) }

\* routes.py 215-234: get_current_power; with a currentPower object the reading is
\* staged (and committed next), without one the route answers success at once.
sync_cloud_data_fetch(c) ==
    /\ c \in CloudCalls
    /\ pc[c] = "Fetching"
    /\ fetches' = [fetches EXCEPT ![c] = @ + 1]
    /\ \/ Fail(c, "HTTPError") /\ UNCHANGED <<pending, payload>>   \* the POST raised
       \/ Succeed(c) /\ UNCHANGED <<pending, payload>>             \* `if current:` is false
       \/ \E current \in CurrentPowers :
            LET reading == CloudReading(current)
            IN  /\ payload' = [payload EXCEPT ![c] = current]
                /\ IF reading.err
                   THEN Fail(c, "ValidationError") /\ pending' = pending
                   ELSE /\ pc' = [pc EXCEPT ![c] = "Persisting"]
                        /\ pending' = [pending EXCEPT ![c] = <<Staged(SolarTable, reading.v, c)>>]
                        /\ UNCHANGED <<status, detail>>
    /\ UNCHANGED side_vars
    /\ UNCHANGED <<now, solar_readings, panel_readings, conn_tests, commits, http_response,
                   imp_vars>>

\* routes.py 279-283 / 232-237: await db.commit(), then the success response.
sync_commit(c) ==
    /\ pc[c] = "Persisting"
    /\ commits' = [commits EXCEPT ![c] = @ + 1]
    /\ \E db_up \in BOOLEAN :
         LET done == Commit(pending[c], Stored, db_up)
         IN  /\ solar_readings' = OfTable(done.stored, SolarTable)
             /\ panel_readings' = OfTable(done.stored, PanelTable)
             /\ IF done.err THEN Fail(c, done.exc) ELSE Succeed(c)
    /\ UNCHANGED side_vars
    /\ UNCHANGED <<now, pending, payload, conn_tests, fetches, http_response, imp_vars>>

----------------------------------------------------------------------------
(* The two create routes.                                                  *)

\* Validated request bodies of the two create routes (the framework builds
\* the SolarReadingCreate / PanelReadingCreate before the handler runs).
CreateReadingBodies ==
    { SolarReadingCreate(0, 55, 20, 35, None, None).v,
      SolarReadingCreate(0, 40, 20, 20, Some(0), Some(80)).v }

CreatePanelBodies ==
    { PanelReadingCreate(0, "INV1", None, 300, None).v }

\* db_up records whether the store answered during the request.
Respond(endpoint, code, body, db_up) ==
    http_response' = [endpoint |-> endpoint, code |-> code, body |-> body, db_up |-> db_up]

\* The create body without its commit: the row is answered, never stored.
CreateRowUncommitted(endpoint, tbl, reading) ==
    \E db_up \in BOOLEAN :
      /\ UNCHANGED <<solar_readings, panel_readings>>
      /\ IF ~db_up THEN Respond(endpoint, 500, <<>>, db_up)
         ELSE Respond(endpoint, 200, reading, db_up)

\* The add-commit-refresh body shared by both create routes: an exception of
\* the commit is not caught by the route, the framework answers 500.
CreateRow(endpoint, tbl, reading) ==
    \E db_up \in BOOLEAN :
      LET done == Commit(<<Staged(tbl, reading, endpoint)>>, Stored, db_up)
      IN  /\ solar_readings' = OfTable(done.stored, SolarTable)
          /\ panel_readings' = OfTable(done.stored, PanelTable)
          /\ IF done.err THEN Respond(endpoint, 500, <<>>, db_up)
             ELSE Respond(endpoint, 200, reading, db_up)

\* routes.py 67-76.
create_reading(body) ==
    /\ CreateRow("create_reading", SolarTable, body)
    /\ created' = IF http_response'.code = 200 THEN created \cup {body} ELSE created
    /\ UNCHANGED <<parse_vars, ws_vars, bg_vars>>
    /\ UNCHANGED <<now, pc, pending, sync_vars, imp_vars>>

\* routes.py 102-111.
create_panel_reading(body) ==
    /\ CreateRow("create_panel_reading", PanelTable, body)
    /\ UNCHANGED side_vars
    /\ UNCHANGED <<now, pc, pending, sync_vars, imp_vars>>

----------------------------------------------------------------------------
(* The read routes.                                                        *)

\* order_by(timestamp.desc()): the rows as a sequence, latest first (rows of
\* one instant in either order).
RECURSIVE OrderByTimestampDesc(_)
OrderByTimestampDesc(rows) ==
    IF rows = {} THEN <<>>
    ELSE LET latest == CHOOSE e \in rows : \A o \in rows : o.timestamp <= e.timestamp
         IN  <<latest>> \o OrderByTimestampDesc(rows \ {latest})

\* .limit(n) of a query.
Limit(rows, n) == SubSeq(rows, 1, IF Len(rows) < n THEN Len(rows) ELSE n)

\* response_model=SolarReading / PanelReading: the columns of each row (Float
\* columns hold the doubles that were inserted, NULL comes back as None).
ResponseRows(rows) == [i \in DOMAIN rows |-> rows[i].row]

\* routes.py 29-38.
get_current_reading ==
    /\ \E db_up \in BOOLEAN :
         LET found == Limit(OrderByTimestampDesc(solar_readings), 1)
         IN  IF ~db_up THEN Respond("get_current_reading", 500, <<>>, db_up)
             ELSE IF found = <<>> THEN Respond("get_current_reading", 404, <<>>, db_up)
             ELSE Respond("get_current_reading", 200, found[1].row, db_up)
    /\ UNCHANGED side_vars
    /\ UNCHANGED <<now, solar_readings, panel_readings, pc, pending, sync_vars, imp_vars>>

\* routes.py 41-64; start and end are optional instants.
get_readings(start, end, limit) ==
    /\ \E db_up \in BOOLEAN :
         LET matching == {e \in solar_readings :
                            /\ start.some => e.timestamp >= start.v
                            /\ end.some => e.timestamp <= end.v}
             found == Limit(OrderByTimestampDesc(matching), limit)
         IN  IF ~db_up THEN Respond("get_readings", 500, <<>>, db_up)
             ELSE Respond("get_readings", 200,
                          [start |-> start, end |-> end, rows |-> ResponseRows(found)], db_up)
    /\ UNCHANGED side_vars
    /\ UNCHANGED <<now, solar_readings, panel_readings, pc, pending, sync_vars, imp_vars>>

\* routes.py 79-99; the window of five minutes around `timestamp` holds the
\* rows of that instant only.
get_panel_readings(timestamp, limit) ==
    /\ \E db_up \in BOOLEAN :
         LET matching == {e \in panel_readings : timestamp.some => e.timestamp = timestamp.v}
             found == Limit(OrderByTimestampDesc(matching), limit)
         IN  IF ~db_up THEN Respond("get_panel_readings", 500, <<>>, db_up)
             ELSE Respond("get_panel_readings", 200,
                          [timestamp |-> timestamp, rows |-> ResponseRows(found)], db_up)
    /\ UNCHANGED side_vars
    /\ UNCHANGED <<now, solar_readings, panel_readings, pc, pending, sync_vars, imp_vars>>

----------------------------------------------------------------------------
(* get_energy_stats (routes.py 114-187).                                   *)

Periods == {"today", "week", "month", "year"}
PeriodLabels == Periods \cup {"decade", "invalid", ""}

\* routes.py 120-127: the start of the window, in hours (a day is 24 hours).
PeriodStart(period, t) ==
    CASE period = "today" -> t - (t % 24)
      [] period = "week" -> t - 7 * 24
      [] period = "month" -> t - 30 * 24
      [] period = "year" -> t - 365 * 24

\* a / b of two numbers, kept as the fraction.
Frac(a, b) == [num |-> a, den |-> b]

\* routes.py 150-153: the four sums over the result set.
RECURSIVE Totals(_)
Totals(readings) ==
    IF readings = {}
    THEN [production |-> 0, consumption |-> 0, export |-> 0, import |-> 0]
    ELSE LET r == CHOOSE x \in readings : TRUE
             rest == Totals(readings \ {r})
         IN  [production |-> rest.production + r.row.production_kw,
              consumption |-> rest.consumption + r.row.consumption_kw,
              export |-> rest.export + Max(0, r.row.grid_kw),
              import |-> rest.import + Max(0, 0 - r.row.grid_kw)]

EnergyStats(period, production, consumption, export, import, rate, peak, average) ==
    [period |-> period, total_production_kwh |-> production,
     total_consumption_kwh |-> consumption, total_export_kwh |-> export,
     total_import_kwh |-> import, self_consumption_rate |-> rate,
     peak_production_kw |-> peak, average_production_kw |-> average]

\* routes.py 138-147 and 178-187: the all-zero response.
ZeroStats(period) == EnergyStats(period, 0, 0, 0, 0, Frac(0, 1), 0, Frac(0, 1))

\* The reductions with the average taken over every stored reading.
ComputeStatsAverageOverStore(period, readings) ==
    LET total == Totals(readings)
    IN  EnergyStats(period, total.production, total.consumption, total.export, total.import,
                    IF total.production > 0
                    THEN Frac((total.production - total.export) * 100, total.production)
                    ELSE Frac(0, 1),
                    CHOOSE p \in {r.row.production_kw : r \in readings} :
                        \A r \in readings : r.row.production_kw <= p,
                    Frac(total.production, Cardinality(solar_readings)))

\* The reductions with the self-consumption rate taken from the import total.
ComputeStatsRateOfImport(period, readings) ==
    LET total == Totals(readings)
    IN  EnergyStats(period, total.production, total.consumption, total.export, total.import,
                    IF total.production > 0
                    THEN Frac((total.production - total.import) * 100, total.production)
                    ELSE Frac(0, 1),
                    CHOOSE p \in {r.row.production_kw : r \in readings} :
                        \A r \in readings : r.row.production_kw <= p,
                    Frac(total.production, Cardinality(readings)))

\* routes.py 150-173: the reductions over a non-empty result set.
ComputeStats(period, readings) ==
    LET total == Totals(readings)
    IN  EnergyStats(period, total.production, total.consumption, total.export, total.import,
                    IF total.production > 0
                    THEN Frac((total.production - total.export) * 100, total.production)
                    ELSE Frac(0, 1),
                    CHOOSE p \in {r.row.production_kw : r \in readings} :
                        \A r \in readings : r.row.production_kw <= p,
                    Frac(total.production, Cardinality(readings)))

\* routes.py 175-187: `except Exception` around the whole body answers the
\* all-zero stats with status 200, whatever was raised inside the try.
StatsExcept(period, raised) == [code |-> 200, body |-> ZeroStats(period)]

\* routes.py 117-173: the body of the try block.
StatsTry(period, t, rows, db_up) ==
    IF period \notin Periods THEN StatsExcept(period, 400)
    ELSE IF ~db_up THEN StatsExcept(period, 500)      \* db.execute raised
    ELSE LET readings == {e \in rows : e.timestamp >= PeriodStart(period, t)}
         IN  IF readings = {} THEN [code |-> 200, body |-> ZeroStats(period)]
             ELSE [code |-> 200, body |-> ComputeStats(period, readings)]

get_energy_stats(period) ==
    /\ \E db_up \in BOOLEAN :
         LET answer == StatsTry(period, now, solar_readings, db_up)
         IN  Respond("get_energy_stats", answer.code, answer.body, db_up)
    /\ UNCHANGED side_vars
    /\ UNCHANGED <<now, solar_readings, panel_readings, pc, pending, sync_vars, imp_vars>>

----------------------------------------------------------------------------
(* import_historical_data.py: the historical import script.                *)

\* `if imported_count % 100 == 0` (line 69).
BatchSize == 100

\* import_historical_data.py 54-63: the reading built from one series item.
ImportReading(reading_data) ==
    LET timestamp == fromisoformat(reading_data.timestamp)
        production_kw == WattsToKw(DictGet(reading_data.production, JNum(0)))
        consumption_kw == WattsToKw(DictGet(reading_data.consumption, JNum(0)))
        grid_kw == WattsToKw(DictGet(reading_data.grid, JNum(0)))
        \* `if reading_data.get("battery")`: None and 0 are both falsy
        truthy == reading_data.battery.k = "bad"
                  \/ (reading_data.battery.k = "num" /\ reading_data.battery.n # 0)
        battery_kw == IF truthy THEN WattsToKw(DictGet(reading_data.battery, JNum(0)))
                      ELSE Ok(None)
    IN  IF timestamp.err \/ production_kw.err \/ consumption_kw.err \/ grid_kw.err
           \/ battery_kw.err
        THEN Raise
        ELSE SolarReadingCreate(timestamp.v, production_kw.v, consumption_kw.v, grid_kw.v,
                                IF truthy THEN Some(battery_kw.v) ELSE None,
                                None)

\* import_historical_data.py 26-29: the connectivity test.
import_test_connection ==
    /\ pc[Importer] = "Connecting"
    /\ \E reachable \in BOOLEAN :
         /\ conn_tests' = [conn_tests EXCEPT ![Importer] = Append(@, reachable)]
         /\ IF reachable
            THEN pc' = [pc EXCEPT ![Importer] = "Fetching"] /\ outcome' = outcome
            ELSE pc' = [pc EXCEPT ![Importer] = "Done"] /\ outcome' = "unavailable"
    /\ UNCHANGED side_vars
    /\ UNCHANGED <<now, solar_readings, panel_readings, pending, status, detail, payload, fetches,
                   commits, http_response, readings_data, item_index, imported_count, skipped_count>>

\* import_historical_data.py 35-44: the series is fetched; `series` is what
\* get_energy_data answers as data.site.energyData.
import_fetch(series) ==
    /\ pc[Importer] = "Fetching"
    /\ fetches' = [fetches EXCEPT ![Importer] = @ + 1]
    /\ \/ /\ pc' = [pc EXCEPT ![Importer] = "Done"]      \* the POST raised
          /\ outcome' = "error"
          /\ UNCHANGED readings_data
       \/ IF series = <<>>
          THEN /\ pc' = [pc EXCEPT ![Importer] = "Done"]
               /\ outcome' = "no_data"
               /\ UNCHANGED readings_data
          ELSE /\ pc' = [pc EXCEPT ![Importer] = "Importing"]
               /\ readings_data' = series
               /\ outcome' = outcome
    /\ UNCHANGED side_vars
    /\ UNCHANGED <<now, solar_readings, panel_readings, pending, status, detail, payload, conn_tests,
                   commits, http_response, item_index, imported_count, skipped_count>>

\* The iteration without the intermediate commit: every reading stays staged
\* until the final commit.
import_item_unbatched ==
    /\ pc[Importer] = "Importing"
    /\ item_index < Len(readings_data)
    /\ item_index' = item_index + 1
    /\ LET reading == ImportReading(readings_data[item_index + 1])
       IN  IF reading.err
           THEN /\ skipped_count' = skipped_count + 1
                /\ UNCHANGED <<imported_count, pending, commits, solar_readings,
                               panel_readings>>
           ELSE LET added == Append(pending[Importer], Staged(SolarTable, reading.v, Importer))
                IN  /\ imported_count' = imported_count + 1
                    /\ IF FALSE
                       THEN \E db_up \in BOOLEAN :
                              LET done == Commit(added, Stored, db_up)
                              IN  /\ commits' = [commits EXCEPT ![Importer] = @ + 1]
                                  /\ solar_readings' = OfTable(done.stored, SolarTable)
                                  /\ panel_readings' = OfTable(done.stored, PanelTable)
                                  /\ pending' = [pending EXCEPT ![Importer] = <<>>]
                                  /\ skipped_count' = IF done.err THEN skipped_count + 1
                                                      ELSE skipped_count
                       ELSE /\ pending' = [pending EXCEPT ![Importer] = added]
                            /\ UNCHANGED <<skipped_count, commits, solar_readings,
                                           panel_readings>>
    /\ UNCHANGED side_vars
    /\ UNCHANGED <<now, pc, status, detail, payload, conn_tests, fetches, http_response,
                   readings_data, outcome>>

\* import_historical_data.py 51-75: one iteration of the loop over the series.
\* A failed commit rolls the session back, which expunges its pending rows.
import_item ==
    /\ pc[Importer] = "Importing"
    /\ item_index < Len(readings_data)
    /\ item_index' = item_index + 1
    /\ LET reading == ImportReading(readings_data[item_index + 1])
       IN  IF reading.err
           THEN /\ skipped_count' = skipped_count + 1
                /\ UNCHANGED <<imported_count, pending, commits, solar_readings,
                               panel_readings>>
           ELSE LET added == Append(pending[Importer], Staged(SolarTable, reading.v, Importer))
                IN  /\ imported_count' = imported_count + 1
                    /\ IF (imported_count + 1) % BatchSize = 0
                       THEN \E db_up \in BOOLEAN :
                              LET done == Commit(added, Stored, db_up)
                              IN  /\ commits' = [commits EXCEPT ![Importer] = @ + 1]
                                  /\ solar_readings' = OfTable(done.stored, SolarTable)
                                  /\ panel_readings' = OfTable(done.stored, PanelTable)
                                  /\ pending' = [pending EXCEPT ![Importer] = <<>>]
                                  /\ skipped_count' = IF done.err THEN skipped_count + 1
                                                      ELSE skipped_count
                       ELSE /\ pending' = [pending EXCEPT ![Importer] = added]
                            /\ UNCHANGED <<skipped_count, commits, solar_readings,
                                           panel_readings>>
    /\ UNCHANGED side_vars
    /\ UNCHANGED <<now, pc, status, detail, payload, conn_tests, fetches, http_response,
                   readings_data, outcome>>

\* import_historical_data.py 77-84: the final commit.
import_final_commit ==
    /\ pc[Importer] = "Importing"
    /\ item_index = Len(readings_data)
    /\ commits' = [commits EXCEPT ![Importer] = @ + 1]
    /\ \E db_up \in BOOLEAN :
         LET done == Commit(pending[Importer], Stored, db_up)
         IN  /\ solar_readings' = OfTable(done.stored, SolarTable)
             /\ panel_readings' = OfTable(done.stored, PanelTable)
             /\ outcome' = IF done.err THEN "error" ELSE "completed"
    /\ pc' = [pc EXCEPT ![Importer] = "Done"]
    /\ pending' = [pending EXCEPT ![Importer] = <<>>]
    /\ UNCHANGED side_vars
    /\ UNCHANGED <<now, status, detail, payload, conn_tests, fetches, http_response,
                   readings_data, item_index, imported_count, skipped_count>>

\* The wall clock advances.
Tick ==
    /\ now < MaxTime
    /\ now' = now + 1
    /\ UNCHANGED side_vars
    /\ UNCHANGED <<solar_readings, panel_readings, pc, pending, sync_vars,
                   http_response, imp_vars>>

\* No call of parse_device_data has been made.
NotCalled == [called |-> FALSE]

NoResponse == [endpoint |-> "", code |-> 0, body |-> <<>>, db_up |-> TRUE]

----------------------------------------------------------------------------
(* api/websockets.py: the connection manager and the live-update endpoint. *)
(* A step runs a coroutine from one await to the next.  The registry lock  *)
(* is never held across an await, so it is free whenever a step begins and *)
(* every `async with self._lock` block runs within its step.               *)

\* The sockets and the broadcast calls of the live-update channel.
Sockets == {"w1", "w2", "w3"}
Broadcasts == {"b1"}

\* A broadcast call that has not been made.
NoBroadcast ==
    [pc |-> "Idle", snapshot |-> {}, connections |-> {}, sending |-> "", disconnected |-> {}]

\* Frames a client sends, and idle intervals an endpoint sits through, before
\* the model stops feeding the endpoint.
MaxFrames == 2
MaxIdle == 1

\* The idle intervals among what the endpoint has handled.
Idles(w) == Cardinality({i \in DOMAIN handled[w] : handled[w][i] = "timeout"})

\* Client frames: the two request types, a JSON object of another type, and
\* text that is not JSON.
ClientFrames == {"request_data", "ping", "other", "malformed"}

\* disconnect leaving the connection set as it is.
DisconnectKept(connections, w) == connections

\* websockets.py 32-36: ConnectionManager.disconnect (set.discard).
Disconnect(connections, w) == connections \ {w}

\* websocket.send_text on this socket delivers the frame.
Delivered(w, frame) == sent' = [sent EXCEPT ![w] = Append(@, frame)]

\* The broadcast with its sends inside the `async with self._lock` block of
\* the copy: the lock is held while a send is awaited.
BroadcastHoldsLockWhileSending(b) == bc[b].pc = "Sending"

\* websockets.py 54-55 and 66-67: the two `async with self._lock` blocks of
\* broadcast contain no await, so at none of the awaits where the broadcast
\* is suspended does it hold the registry lock.
BroadcastHoldsLock(b) == FALSE

\* `async with self._lock` (websockets.py 28, 34, 54, 66) proceeds when the
\* lock is free; connect and disconnect release it before their next await.
LockFree == \A b \in Broadcasts : ~BroadcastHoldsLock(b)

\* websockets.py 79 and 25-30: websocket.accept(), then the socket is added.
\* accept() on a transport that is gone raises, outside the endpoint's try.
endpoint_connect(w) ==
    /\ ep[w] = "Idle"
    /\ link[w] # "stalled"
    /\ IF link[w] = "open"
       THEN /\ LockFree
            /\ active_connections' = active_connections \cup {w}
            /\ ep' = [ep EXCEPT ![w] = "Receiving"]
       ELSE /\ ep' = [ep EXCEPT ![w] = "Closed"]
            /\ UNCHANGED active_connections
    /\ UNCHANGED <<link, inbox, handled, reply, sent, bc>>
    /\ UNCHANGED <<route_vars, parse_vars, created, bg_vars>>

\* The endpoint with the timeout of wait_for not caught by the inner handler:
\* it reaches `except Exception`, which disconnects and ends the endpoint.
endpoint_receive_timeout_uncaught(w) ==
    /\ ep[w] = "Receiving"
    /\ \/ /\ link[w] = "broken"
          /\ LockFree
          /\ active_connections' = Disconnect(active_connections, w)
          /\ ep' = [ep EXCEPT ![w] = "Closed"]
          /\ UNCHANGED <<inbox, handled, reply>>
       \/ /\ link[w] = "open" /\ inbox[w] # <<>>
          /\ LET frame == Head(inbox[w])
             IN  /\ inbox' = [inbox EXCEPT ![w] = Tail(@)]
                 /\ handled' = [handled EXCEPT ![w] = Append(@, frame)]
                 /\ IF frame = "malformed"
                    THEN /\ LockFree
                         /\ active_connections' = Disconnect(active_connections, w)
                         /\ ep' = [ep EXCEPT ![w] = "Closed"]
                         /\ UNCHANGED reply
                    ELSE IF frame \in {"request_data", "ping"}
                    THEN /\ reply' = [reply EXCEPT ![w] =
                                         IF frame = "ping" THEN "pong" ELSE "current_data"]
                         /\ ep' = [ep EXCEPT ![w] = "Answering"]
                         /\ UNCHANGED active_connections
                    ELSE UNCHANGED <<active_connections, ep, reply>>
       \/ /\ link[w] # "broken" /\ inbox[w] = <<>>
          /\ Idles(w) < MaxIdle
          /\ handled' = [handled EXCEPT ![w] = Append(@, "timeout")]
          /\ LockFree
          /\ active_connections' = Disconnect(active_connections, w)
          /\ ep' = [ep EXCEPT ![w] = "Closed"]
          /\ UNCHANGED <<inbox, reply>>
    /\ UNCHANGED <<link, sent, bc>>
    /\ UNCHANGED <<route_vars, parse_vars, created, bg_vars>>

\* websockets.py 84-115: wait_for(receive_text(), 30 s) and the handling of
\* what it gives: WebSocketDisconnect, a client frame, or the timeout.
endpoint_receive(w) ==
    /\ ep[w] = "Receiving"
    /\ \/ /\ link[w] = "broken"                      \* except WebSocketDisconnect
          /\ LockFree
          /\ active_connections' = Disconnect(active_connections, w)
          /\ ep' = [ep EXCEPT ![w] = "Closed"]
          /\ UNCHANGED <<inbox, handled, reply>>
       \/ /\ link[w] = "open" /\ inbox[w] # <<>>
          /\ LET frame == Head(inbox[w])
             IN  /\ inbox' = [inbox EXCEPT ![w] = Tail(@)]
                 /\ handled' = [handled EXCEPT ![w] = Append(@, frame)]
                 /\ IF frame = "malformed"           \* json.loads raises: except Exception
                    THEN /\ LockFree
                         /\ active_connections' = Disconnect(active_connections, w)
                         /\ ep' = [ep EXCEPT ![w] = "Closed"]
                         /\ UNCHANGED reply
                    ELSE IF frame \in {"request_data", "ping"}
                    THEN /\ reply' = [reply EXCEPT ![w] =
                                         IF frame = "ping" THEN "pong" ELSE "current_data"]
                         /\ ep' = [ep EXCEPT ![w] = "Answering"]
                         /\ UNCHANGED active_connections
                    ELSE UNCHANGED <<active_connections, ep, reply>>
       \/ /\ link[w] # "broken" /\ inbox[w] = <<>>   \* except TimeoutError
          /\ Idles(w) < MaxIdle
          /\ handled' = [handled EXCEPT ![w] = Append(@, "timeout")]
          /\ reply' = [reply EXCEPT ![w] = "current_data"]
          /\ ep' = [ep EXCEPT ![w] = "Answering"]
          /\ UNCHANGED <<active_connections, inbox>>
    /\ UNCHANGED <<link, sent, bc>>
    /\ UNCHANGED <<route_vars, parse_vars, created, bg_vars>>

\* websockets.py 38-44: send_personal_message; a failed send is logged, the
\* socket is removed, and the endpoint's loop goes on.
endpoint_send(w) ==
    /\ ep[w] = "Answering"
    /\ link[w] # "stalled"
    /\ IF link[w] = "open"
       THEN Delivered(w, reply[w]) /\ UNCHANGED active_connections
       ELSE /\ LockFree
            /\ active_connections' = Disconnect(active_connections, w)
            /\ UNCHANGED sent
    /\ ep' = [ep EXCEPT ![w] = "Receiving"]
    /\ reply' = [reply EXCEPT ![w] = ""]
    /\ UNCHANGED <<link, inbox, handled, bc>>
    /\ UNCHANGED <<route_vars, parse_vars, created, bg_vars>>

\* websockets.py 46-55: broadcast up to its first send: nothing to do without
\* connections, else the copy of the connection set taken under the lock.
broadcast_start(b) ==
    /\ bc[b].pc = "Idle"
    /\ active_connections # {} => LockFree
    /\ bc' = [bc EXCEPT ![b] =
                IF active_connections = {}
                THEN [@ EXCEPT !.pc = "Done"]
                ELSE [@ EXCEPT !.pc = "Looping", !.snapshot = active_connections,
                               !.connections = active_connections]]
    /\ UNCHANGED <<active_connections, link, ep, inbox, handled, reply, sent>>
    /\ UNCHANGED <<route_vars, parse_vars, created, bg_vars>>

\* websockets.py 57-59: the next connection of the copy (a set: any order)
\* and `await connection.send_text(message_text)` on it.
broadcast_send(b) ==
    /\ bc[b].pc = "Looping"
    /\ \E w \in bc[b].connections :
         bc' = [bc EXCEPT ![b] = [@ EXCEPT !.pc = "Sending", !.sending = w,
                                           !.connections = @ \ {w}]]
    /\ UNCHANGED <<active_connections, link, ep, inbox, handled, reply, sent>>
    /\ UNCHANGED <<route_vars, parse_vars, created, bg_vars>>

\* The send without its try/except: a send that raises ends the broadcast.
broadcast_sent_unguarded(b) ==
    /\ bc[b].pc = "Sending"
    /\ link[bc[b].sending] # "stalled"
    /\ IF link[bc[b].sending] = "open"
       THEN /\ Delivered(bc[b].sending, "solar_update")
            /\ bc' = [bc EXCEPT ![b] = [@ EXCEPT !.pc = "Looping", !.sending = ""]]
       ELSE /\ UNCHANGED sent
            /\ bc' = [bc EXCEPT ![b] = [@ EXCEPT !.pc = "Done", !.sending = "",
                                                 !.disconnected = @ \cup {bc[b].sending}]]
    /\ UNCHANGED <<active_connections, link, ep, inbox, handled, reply>>
    /\ UNCHANGED <<route_vars, parse_vars, created, bg_vars>>

\* websockets.py 59-62: the awaited send returns, or raises and the
\* connection is noted as disconnected; on a stalled transport it does neither.
broadcast_sent(b) ==
    /\ bc[b].pc = "Sending"
    /\ link[bc[b].sending] # "stalled"
    /\ IF link[bc[b].sending] = "open"
       THEN /\ Delivered(bc[b].sending, "solar_update")
            /\ bc' = [bc EXCEPT ![b] = [@ EXCEPT !.pc = "Looping", !.sending = ""]]
       ELSE /\ UNCHANGED sent
            /\ bc' = [bc EXCEPT ![b] = [@ EXCEPT !.pc = "Looping", !.sending = "",
                                                 !.disconnected = @ \cup {bc[b].sending}]]
    /\ UNCHANGED <<active_connections, link, ep, inbox, handled, reply>>
    /\ UNCHANGED <<route_vars, parse_vars, created, bg_vars>>

\* The cleanup assigning the copy less the failed connections:
\* active_connections = connections - disconnected.
broadcast_cleanup_from_copy(b) ==
    /\ bc[b].pc = "Looping"
    /\ bc[b].connections = {}
    /\ bc[b].disconnected # {} => LockFree
    /\ active_connections' = bc[b].snapshot \ bc[b].disconnected
    /\ bc' = [bc EXCEPT ![b] = [@ EXCEPT !.pc = "Done"]]
    /\ UNCHANGED <<link, ep, inbox, handled, reply, sent>>
    /\ UNCHANGED <<route_vars, parse_vars, created, bg_vars>>

\* websockets.py 64-70: after the loop, the failed connections are removed
\* under the lock, and broadcast returns to its caller.
broadcast_cleanup(b) ==
    /\ bc[b].pc = "Looping"
    /\ bc[b].connections = {}
    /\ bc[b].disconnected # {} => LockFree
    /\ active_connections' = active_connections \ bc[b].disconnected
    /\ bc' = [bc EXCEPT ![b] = [@ EXCEPT !.pc = "Done"]]
    /\ UNCHANGED <<link, ep, inbox, handled, reply, sent>>
    /\ UNCHANGED <<route_vars, parse_vars, created, bg_vars>>

\* The client of a connected socket goes away, or stops reading so that
\* frames sent to it are never taken.
client_close(w) ==
    /\ ep[w] \in {"Receiving", "Answering"}
    /\ link[w] # "broken"
    /\ link' = [link EXCEPT ![w] = "broken"]
    /\ UNCHANGED <<active_connections, ep, inbox, handled, reply, sent, bc>>
    /\ UNCHANGED <<route_vars, parse_vars, created, bg_vars>>

client_stall(w) ==
    /\ ep[w] \in {"Receiving", "Answering"}
    /\ link[w] = "open"
    /\ link' = [link EXCEPT ![w] = "stalled"]
    /\ UNCHANGED <<active_connections, ep, inbox, handled, reply, sent, bc>>
    /\ UNCHANGED <<route_vars, parse_vars, created, bg_vars>>

\* The client of a connected socket sends a frame.
client_send(w, frame) ==
    /\ ep[w] \in {"Receiving", "Answering"}
    /\ link[w] = "open"
    /\ Len(handled[w]) - Idles(w) + Len(inbox[w]) < MaxFrames
    /\ inbox' = [inbox EXCEPT ![w] = Append(@, frame)]
    /\ UNCHANGED <<active_connections, link, ep, handled, reply, sent, bc>>
    /\ UNCHANGED <<route_vars, parse_vars, created, bg_vars>>

----------------------------------------------------------------------------
(* PVS6LocalAPI.monitor_production (pvs6_local.py 134-144): the polling    *)
(* loop.  A step runs the coroutine from one await to the next.            *)

\* Iterations whose outcome the model records; the loop itself has no end.
MaxPolls == 3

\* The polling loop has not been started.
NoMonitor == [pc |-> "Idle", log |-> <<>>]

\* The outcome of an iteration is recorded, up to MaxPolls outcomes.
Noted(log, result) == IF Len(log) < MaxPolls THEN Append(log, result) ELSE log

\* The loop without its `except Exception`: what is raised leaves the loop.
MonitorExceptUncaught(exc) == "Stopped"

\* pvs6_local.py 141-144: `except Exception` prints the error; the loop body
\* goes on to its last statement, `await asyncio.sleep(interval)`.
MonitorExcept(exc) == "Sleeping"

\* pvs6_local.py 138-139: await get_device_list() under the client's
\* httpx.Timeout(15.0, connect=5.0), which raises when the gateway does not
\* answer in time, then parse_device_data on what was fetched.
monitor_fetch ==
    /\ monitor.pc = "Fetching"
    /\ \/ \E exc \in {"HTTPError", "TimeoutException"} :
            monitor' = [pc |-> MonitorExcept(exc), log |-> Noted(monitor.log, exc)]
       \/ \E device_list \in SyncDeviceLists :
            IF parse_device_data(device_list.devices).err
            THEN monitor' = [pc |-> MonitorExcept("ValueError"),
                             log |-> Noted(monitor.log, "ValueError")]
            ELSE monitor' = [monitor EXCEPT !.pc = "Calling"]
    /\ UNCHANGED <<route_vars, parse_vars, created, ws_vars, log_vars>>

\* pvs6_local.py 140: await callback(data): it returns, or it raises.
monitor_callback ==
    /\ monitor.pc = "Calling"
    /\ \/ monitor' = [pc |-> "Sleeping", log |-> Noted(monitor.log, "ok")]
       \/ monitor' = [pc |-> MonitorExcept("CallbackError"),
                      log |-> Noted(monitor.log, "CallbackError")]
    /\ UNCHANGED <<route_vars, parse_vars, created, ws_vars, log_vars>>

\* pvs6_local.py 144 and 136: the sleep is over, `while True` starts the next
\* iteration.
monitor_sleep ==
    /\ monitor.pc = "Sleeping"
    /\ monitor' = [monitor EXCEPT !.pc = "Fetching"]
    /\ UNCHANGED <<route_vars, parse_vars, created, ws_vars, log_vars>>

----------------------------------------------------------------------------
(* logging_db_handler.py: DatabaseLogHandler.  The worker is a thread: a   *)
(* step is one of its operations on the queue or on the flag.  Records are *)
(* counted, not told apart.                                                *)

\* Records emitted before the handler is closed.
MaxRecords == 4

\* DatabaseLogHandler(batch_size=...) as constructed in the model.
batch_size == 2

\* logging_db_handler.py 34-39: emit() puts the formatted record on the queue.
emit ==
    /\ ~shutdown_flag
    /\ emitted < MaxRecords
    /\ log_queue' = log_queue + 1
    /\ emitted' = emitted + 1
    /\ UNCHANGED <<batch, shutdown_flag, worker, written>>
    /\ UNCHANGED <<route_vars, parse_vars, created, ws_vars, monitor>>

\* logging_db_handler.py 100: `while not self.shutdown_flag.is_set()`; with
\* the flag set the worker leaves the loop and the thread ends (124-126).
worker_check ==
    /\ worker = "Check"
    /\ worker' = IF shutdown_flag THEN "Stopped" ELSE "Collect"
    /\ UNCHANGED <<log_queue, batch, shutdown_flag, written, emitted>>
    /\ UNCHANGED <<route_vars, parse_vars, created, ws_vars, monitor>>

\* logging_db_handler.py 103-108: one turn of the collecting loop: a record
\* is taken, or the batch is full, or get() timed out on an empty queue.
worker_get ==
    /\ worker = "Collect"
    /\ IF batch < batch_size /\ log_queue > 0
       THEN /\ log_queue' = log_queue - 1
            /\ batch' = batch + 1
            /\ UNCHANGED worker
       ELSE /\ worker' = "Write"
            /\ UNCHANGED <<log_queue, batch>>
    /\ UNCHANGED <<shutdown_flag, written, emitted>>
    /\ UNCHANGED <<route_vars, parse_vars, created, ws_vars, monitor>>

\* logging_db_handler.py 111-117: a batch that holds records is given to
\* _write_logs_to_db (which swallows its own errors) and cleared.
worker_write ==
    /\ worker = "Write"
    /\ written' = written + batch
    /\ batch' = 0
    /\ worker' = "Check"
    /\ UNCHANGED <<log_queue, shutdown_flag, emitted>>
    /\ UNCHANGED <<route_vars, parse_vars, created, ws_vars, monitor>>

\* logging_db_handler.py 148-153: close() sets the flag; the join that
\* follows only waits.
close ==
    /\ ~shutdown_flag
    /\ shutdown_flag' = TRUE
    /\ UNCHANGED <<log_queue, batch, worker, written, emitted>>
    /\ UNCHANGED <<route_vars, parse_vars, created, ws_vars, monitor>>

----------------------------------------------------------------------------
(* Specifications.                                                         *)

\* The calls of `started` have been requested, the others never are.
InitCalls(started) ==
    /\ pc = [c \in Calls |-> IF c \in started THEN "Connecting" ELSE "Idle"]
    /\ pending = [c \in Calls |-> <<>>]
    /\ status = [c \in Calls |-> 0]
    /\ detail = [c \in Calls |-> ""]
    /\ payload = [c \in Calls |-> <<>>]
    /\ conn_tests = [c \in Calls |-> <<>>]
    /\ fetches = [c \in Calls |-> 0]
    /\ commits = [c \in Calls |-> 0]
    /\ http_response = NoResponse
    /\ readings_data = <<>>
    /\ item_index = 0
    /\ imported_count = 0
    /\ skipped_count = 0
    /\ outcome = ""

\* No client has opened a socket and nothing is broadcast.
InitNoSockets ==
    /\ active_connections = {}
    /\ link = [w \in Sockets |-> "open"]
    /\ ep = [w \in Sockets |-> "Idle"]
    /\ inbox = [w \in Sockets |-> <<>>]
    /\ handled = [w \in Sockets |-> <<>>]
    /\ reply = [w \in Sockets |-> ""]
    /\ sent = [w \in Sockets |-> <<>>]
    /\ bc = [b \in Broadcasts |-> NoBroadcast]

\* No log record has been emitted and the worker thread has just started;
\* the polling loop is not running.
InitLog ==
    /\ log_queue = 0
    /\ batch = 0
    /\ shutdown_flag = FALSE
    /\ worker = "Check"
    /\ written = 0
    /\ emitted = 0

InitBackground ==
    /\ monitor = NoMonitor
    /\ InitLog

\* parse_device_data is not called on its own.
InitSide ==
    /\ parse_input = <<>>
    /\ parse_result = NotCalled
    /\ created = {}
    /\ InitNoSockets
    /\ InitBackground

\* Spec: two local sync requests and a cloud sync request, served concurrently
\* over an empty store.
Init ==
    /\ now = 0
    /\ solar_readings = {}
    /\ panel_readings = {}
    /\ InitCalls(SyncCalls)
    /\ InitSide

Next ==
    \/ Tick
    \/ \E c \in SyncCalls : test_connection(c)
    \/ \E c \in LocalCalls : sync_local_data_fetch(c)
    \/ \E c \in CloudCalls : sync_cloud_data_fetch(c)
    \/ \E c \in SyncCalls : sync_commit(c)

Spec == Init /\ [][Next]_vars

\* What get_energy_data may answer as one item of data.site.energyData.
EnergyItem(timestamp, battery) ==
    CloudItem(timestamp, JNum(5500), JNum(2000), JNum(3500), battery, JAbsent)

\* Short series: one item without battery data; a malformed timestamp among
\* good items; a battery reporting 0 W; a battery reporting 1500 W; an
\* instant reported twice.
ShortSeries ==
    { <<>>,
      <<EnergyItem(JIso(0), JAbsent)>>,
      <<EnergyItem(JBad, JAbsent), EnergyItem(JIso(1), JAbsent)>>,
      <<EnergyItem(JIso(0), JNum(0))>>,
      <<EnergyItem(JIso(1), JNum(1500))>>,
      <<EnergyItem(JIso(1), JAbsent), EnergyItem(JIso(1), JAbsent)>> }

\* SpecWriters: every writer of the store at once: a local sync, a cloud sync,
\* the historical import of a short series, and the two create routes.
Writers == {"L1", "K1", Importer}

InitWriters ==
    /\ now = 0
    /\ solar_readings = {}
    /\ panel_readings = {}
    /\ InitCalls(Writers)
    /\ InitSide

NextWriters ==
    \/ \E c \in SyncCalls : test_connection(c)
    \/ \E c \in LocalCalls : sync_local_data_fetch(c)
    \/ \E c \in CloudCalls : sync_cloud_data_fetch(c)
    \/ \E c \in SyncCalls : sync_commit(c)
    \/ \E body \in CreateReadingBodies : create_reading(body)
    \/ \E body \in CreatePanelBodies : create_panel_reading(body)
    \/ import_test_connection
    \/ \E series \in ShortSeries : import_fetch(series)
    \/ import_item
    \/ import_final_commit

SpecWriters == InitWriters /\ [][NextWriters]_vars

\* SpecImport: one run of the historical import over a long series, into a
\* store that is empty or holds a reading of an earlier import.
ImportLen == 250

\* Positions of the series whose timestamp is not ISO-8601.
MalformedAt == {7, 120, 130}

\* A series of n hourly items; the items at `bad` have a malformed timestamp,
\* the item at `twin` (if not 0) repeats the instant of the item before it.
Series(n, bad, twin) ==
    [i \in 1..n |->
        IF i \in bad THEN EnergyItem(JBad, JAbsent)
        ELSE IF i = twin THEN EnergyItem(JIso(i - 1), JAbsent)
        ELSE EnergyItem(JIso(i), JAbsent)]

LongSeries ==
    { Series(ImportLen, bad, twin) : bad \in {{}, MalformedAt}, twin \in {0, 150} }

EarlierImport == {Staged(SolarTable, SolarReadingCreate(50, 55, 20, 35, None, None).v, "earlier")}

InitImport ==
    /\ now = 0
    /\ solar_readings \in {{}, EarlierImport}
    /\ panel_readings = {}
    /\ InitCalls({Importer})
    /\ InitSide

NextImport ==
    \/ import_test_connection
    \/ \E series \in LongSeries : import_fetch(series)
    \/ import_item
    \/ import_final_commit

SpecImport == InitImport /\ [][NextImport]_vars

\* SpecStats: statistics requests over a store of a few readings.
StatsClock == 10000
MaxReadings == 2

\* Ages (in hours before the clock) of the readings a store may hold: the
\* future, now, earlier today, yesterday, and around the week, month and
\* year marks.
StatsAges == {-1, 0, 3, 20, 7 * 24, 7 * 24 + 1, 30 * 24 + 1, 365 * 24 + 1}

StatsRows ==
    { Staged(SolarTable, SolarReadingCreate(StatsClock - age, x[1], x[2], x[3], None, None).v,
             "seed") :
        age \in StatsAges, x \in {<<55, 20, 35>>, <<0, 20, -20>>, <<30, 30, 0>>, <<10, 0, 20>>} }

\* The subsets of S of at most n elements.
RECURSIVE SubsetsUpTo(_, _)
SubsetsUpTo(S, n) ==
    IF n = 0 THEN {{}}
    ELSE LET smaller == SubsetsUpTo(S, n - 1)
         IN  smaller \cup {rows \cup {x} : rows \in smaller, x \in S}

StatsStores ==
    { rows \in SubsetsUpTo(StatsRows, MaxReadings) :
        \A a, b \in rows : a.timestamp = b.timestamp => a = b }

InitStats ==
    /\ now = StatsClock
    /\ solar_readings \in StatsStores
    /\ panel_readings = {}
    /\ InitCalls({})
    /\ InitSide

NextStats ==
    \E period \in PeriodLabels : get_energy_stats(period)

SpecStats == InitStats /\ [][NextStats]_vars

\* SpecCore: every core operation: the create routes, the read routes and the
\* statistics route, served while two of the local sync, the cloud sync and
\* the historical import of a short series run.
CoreSeries ==
    { <<EnergyItem(JIso(0), JAbsent)>>,
      <<EnergyItem(JBad, JAbsent), EnergyItem(JIso(1), JNum(1500))>> }

\* Query parameters of the read routes: no bounds, or one instant.
QueryInstants == {None, Some(0), Some(1)}
QueryLimits == {1, 100}

InitCore ==
    /\ now = 0
    /\ solar_readings = {}
    /\ panel_readings = {}
    /\ \E started \in SUBSET Writers : Cardinality(started) = 2 /\ InitCalls(started)
    /\ InitSide

NextCore ==
    \/ \E c \in SyncCalls : test_connection(c)
    \/ \E c \in LocalCalls : sync_local_data_fetch(c)
    \/ \E c \in CloudCalls : sync_cloud_data_fetch(c)
    \/ \E c \in SyncCalls : sync_commit(c)
    \/ \E body \in CreateReadingBodies : create_reading(body)
    \/ \E body \in CreatePanelBodies : create_panel_reading(body)
    \/ import_test_connection
    \/ \E series \in CoreSeries : import_fetch(series)
    \/ import_item
    \/ import_final_commit
    \/ get_current_reading
    \/ \E at \in QueryInstants, limit \in QueryLimits : get_readings(at, at, limit)
    \/ \E timestamp \in QueryInstants : get_panel_readings(timestamp, 100)
    \/ \E period \in {"today", "decade"} : get_energy_stats(period)

SpecCore == InitCore /\ [][NextCore]_vars

\* The store is empty and no call of the routes or of the import is made.
InitNoCalls ==
    /\ now = 0
    /\ solar_readings = {}
    /\ panel_readings = {}
    /\ InitCalls({})
    /\ parse_input = <<>>
    /\ parse_result = NotCalled
    /\ created = {}

\* SpecBroadcast: three clients connect, go away or stall while a message is
\* broadcast; idle endpoints send their periodic snapshot.
InitBroadcast ==
    /\ InitNoCalls
    /\ InitNoSockets
    /\ InitBackground

NextBroadcast ==
    \/ \E w \in Sockets : endpoint_connect(w)
    \/ \E w \in Sockets : endpoint_receive(w)
    \/ \E w \in Sockets : endpoint_send(w)
    \/ \E w \in Sockets : client_close(w)
    \/ \E w \in Sockets : client_stall(w)
    \/ \E b \in Broadcasts : broadcast_start(b)
    \/ \E b \in Broadcasts : broadcast_send(b)
    \/ \E b \in Broadcasts : broadcast_sent(b)
    \/ \E b \in Broadcasts : broadcast_cleanup(b)

SpecBroadcast == InitBroadcast /\ [][NextBroadcast]_vars

\* SpecEndpoint: one client talks to its endpoint (requests, pings, other and
\* malformed frames, idle intervals) while a message is broadcast.
Talkers == {"w1"}

NextEndpoint ==
    \/ \E w \in Talkers : endpoint_connect(w)
    \/ \E w \in Talkers : endpoint_receive(w)
    \/ \E w \in Talkers : endpoint_send(w)
    \/ \E w \in Talkers : client_close(w)
    \/ \E w \in Talkers : client_stall(w)
    \/ \E w \in Talkers, frame \in ClientFrames : client_send(w, frame)
    \/ \E b \in Broadcasts : broadcast_start(b)
    \/ \E b \in Broadcasts : broadcast_send(b)
    \/ \E b \in Broadcasts : broadcast_sent(b)
    \/ \E b \in Broadcasts : broadcast_cleanup(b)

SpecEndpoint == InitBroadcast /\ [][NextEndpoint]_vars

\* SpecLocal: two local sync requests over an empty store, and statistics
\* requests over what they stored.
InitLocal ==
    /\ now = 0
    /\ solar_readings = {}
    /\ panel_readings = {}
    /\ InitCalls(LocalCalls)
    /\ InitSide

NextLocal ==
    \/ Tick
    \/ \E c \in LocalCalls : test_connection(c)
    \/ \E c \in LocalCalls : sync_local_data_fetch(c)
    \/ \E c \in LocalCalls : sync_commit(c)
    \/ \E period \in {"today", "week"} : get_energy_stats(period)

SpecLocal == InitLocal /\ [][NextLocal]_vars

\* SpecMonitor: the polling loop on its own; FairMonitor: the event loop
\* resumes a coroutine whose await is over (the fetch ends within its
\* timeout, the callback returns or raises, the sleep ends).
InitMonitor ==
    /\ InitNoCalls
    /\ InitNoSockets
    /\ InitLog
    /\ monitor = [NoMonitor EXCEPT !.pc = "Fetching"]

NextMonitor ==
    \/ monitor_fetch
    \/ monitor_callback
    \/ monitor_sleep

SpecMonitor == InitMonitor /\ [][NextMonitor]_vars

FairMonitor == SpecMonitor /\ WF_vars(NextMonitor)

\* SpecLog: records are emitted while the worker thread runs, and the handler
\* is closed at some moment.
NextLog ==
    \/ emit
    \/ worker_check
    \/ worker_get
    \/ worker_write
    \/ close

SpecLog == InitBroadcast /\ [][NextLog]_vars

\* SpecParse: parse_device_data applied to a device list of the gateway.
MaxDevices == 3

SeqsUpTo(S, n) == UNION {[1..k -> S] : k \in 0..n}

\* More device records: a second production meter, a meter whose power is
\* not a number.
ProductionMeter2 == Device("Power Meter", "M-p2", "pvs5-meter-production", JNum(30), JAbsent)
GarbledMeter == Device("Power Meter", "M-g", "NET_CONSUMPTION_LOADSIDE", JBad, JAbsent)

DeviceRecords ==
    {PVS6, ProductionMeter, ProductionMeter2, NightMeter, ConsumptionMeter, GarbledMeter,
     Inverter1, Inverter2, NightInverter, GarbledInverter}

\* pvs6_local.py 31-106 as called by get_current_production, get_panel_details
\* and monitor_production: the result, or the exception leaving the call.
parse_device_list ==
    /\ ~parse_result.called
    /\ LET data == parse_device_data(parse_input)
       IN  parse_result' = [called |-> TRUE, raised |-> data.err, data |-> data]
    /\ UNCHANGED <<parse_input, created, ws_vars, bg_vars>>
    /\ UNCHANGED route_vars

InitParse ==
    /\ now = 0
    /\ solar_readings = {}
    /\ panel_readings = {}
    /\ InitCalls({})
    /\ parse_input \in SeqsUpTo(DeviceRecords, MaxDevices)
    /\ parse_result = NotCalled
    /\ created = {}
    /\ InitNoSockets
    /\ InitBackground

NextParse == parse_device_list

SpecParse == InitParse /\ [][NextParse]_vars

----------------------------------------------------------------------------
(* The claims.                                                             *)

RowsBy(c) == {e \in Stored : e.by = c}
PendingRows(c) == {pending[c][i] : i \in DOMAIN pending[c]}
StatsAnswered == http_response.endpoint = "get_energy_stats"
TestFailed(c) == \E i \in DOMAIN conn_tests[c] : ~conn_tests[c][i]

\* C1 (as claimed, SpecStats): a stats request for a period label other than
\* today, week, month and year is answered with the client error 400, never
\* with a (zeroed) stats response.
C1_InvalidPeriodRejected ==
    (StatsAnswered /\ http_response.body.period \notin Periods)
        => http_response.code = 400

\* C2 (as claimed, Spec): a sync call whose connectivity test returned false
\* ends with status 503, distinct from the 500 of every other failure.
C2_UnavailableIs503 ==
    \A c \in SyncCalls :
        (pc[c] = "Done" /\ TestFailed(c)) => status[c] = 503

\* The PanelReadingCreate of this inverter record raises.
InverterRejected(device) ==
    /\ device.DEVICE_TYPE = "Inverter"
    /\ device.p_3phsum_kw.k = "num"
    /\ device.p_3phsum_kw.n < 0

\* C3 (as claimed, Spec): a local sync whose device list parses and holds an
\* inverter whose PanelReading cannot be constructed does not fail for it: it
\* goes on to stage and commit the reading and the other panel readings.
C3_FailingInverterSkipped ==
    \A c \in LocalCalls :
        ( /\ pc[c] = "Done"
          /\ payload[c] # <<>>
          /\ ~parse_device_data(payload[c].devices).err
          /\ \E i \in DOMAIN payload[c].devices : InverterRejected(payload[c].devices[i]) )
        => /\ detail[c] # "ValidationError"
           /\ commits[c] = 1

\* C4 (as claimed, Spec): a local sync whose commit hits the unique constraint
\* on the timestamp of a reading another local sync stored does not end in a
\* failure result.
C4_DuplicateTimestampBenign ==
    \A c \in LocalCalls :
        ( /\ pc[c] = "Done"
          /\ detail[c] = "IntegrityError"
          /\ \E e \in solar_readings :
                e.by \in LocalCalls \ {c} /\ e.timestamp = pending[c][1].timestamp )
        => status[c] = 200

\* Number of items of the fetched series whose timestamp is not ISO-8601.
MalformedTimestamps ==
    Cardinality({i \in DOMAIN readings_data : fromisoformat(readings_data[i].timestamp).err})

\* C5 (as claimed, SpecImport): an import run over n items, k of them with a
\* malformed timestamp, ends with imported_count = n - k and skipped_count = k.
C5_ImportCounts ==
    (pc[Importer] = "Done" /\ outcome = "completed")
        => /\ imported_count = Len(readings_data) - MalformedTimestamps
           /\ skipped_count = MalformedTimestamps

\* The staged row carries battery_kw exactly when the item carries a battery
\* value, and a battery value of 0 W is stored as 0.0 kW.
BatteryKept(item, e) ==
    /\ e.row.battery_kw.some <=> item.battery.k = "num"
    /\ item.battery = JNum(0) => e.row.battery_kw = Some(0)

\* C6 (as claimed, SpecWriters): in the cloud sync and in the import, the row
\* staged from a source item has battery_kw set exactly when the item carries
\* the battery field (0 W stored as 0.0), and battery_soc set exactly when the
\* item carries batterySOC.
C6_BatteryOnlyIfPresent ==
    /\ \A c \in CloudCalls :
         pending[c] # <<>> =>
            /\ BatteryKept(payload[c], pending[c][1])
            /\ pending[c][1].row.battery_soc.some <=> payload[c].batterySOC.k = "num"
    /\ ( /\ pc[Importer] = "Importing"
         /\ item_index > 0
         /\ ~ImportReading(readings_data[item_index]).err )
       => LET e == pending[Importer][Len(pending[Importer])]
              item == readings_data[item_index]
          IN  /\ BatteryKept(item, e)
              /\ e.row.battery_soc.some <=> item.batterySOC.k = "num"

\* No two stored rows of a table share its unique key.
UniqueKeys == \A a, b \in Stored : UniqueKey(a) = UniqueKey(b) => a = b

\* A row with the unique key of this body is stored.
KeyTaken(tbl, body) ==
    \E e \in Stored : UniqueKey(e) = UniqueKey(Staged(tbl, body, ""))

\* C7 (SpecWriters): whatever the interleaving of the create routes, the local
\* sync, the cloud sync and the import, no two stored readings share a
\* timestamp and no two stored panel readings share (timestamp, panel_id); a
\* create request for a key that is taken ends in an error and leaves the
\* store as it was.
C7_UniqueKeysKept ==
    /\ []UniqueKeys
    /\ [][ /\ \A body \in CreateReadingBodies :
                (create_reading(body) /\ KeyTaken(SolarTable, body))
                    => /\ http_response'.code = 500
                       /\ UNCHANGED <<solar_readings, panel_readings>>
           /\ \A body \in CreatePanelBodies :
                (create_panel_reading(body) /\ KeyTaken(PanelTable, body))
                    => /\ http_response'.code = 500
                       /\ UNCHANGED <<solar_readings, panel_readings>> ]_vars

\* A create request was refused for a key that a sync or the import stored,
\* while the store answered.
C7_Witness ==
    /\ http_response.endpoint = "create_reading"
    /\ http_response.code = 500
    /\ http_response.db_up
    /\ \E e \in solar_readings : e.by \in Calls
    /\ \E e \in panel_readings : e.by = "create_panel_reading"

\* C8 (Spec): the rows of a local sync call reach the store in one commit: at
\* every moment the store holds all the rows the call staged or none of them,
\* all of them once it answered success, none once it answered failure.
C8_SingleCommit ==
    \A c \in LocalCalls :
        /\ RowsBy(c) = {} \/ RowsBy(c) = PendingRows(c)
        /\ status[c] = 200 => RowsBy(c) = PendingRows(c)
        /\ status[c] = 500 => RowsBy(c) = {}
        /\ commits[c] <= 1

\* One local sync has committed a reading with two panel readings, the other
\* staged several rows and its commit was refused.
C8_Witness ==
    \E c, d \in LocalCalls :
        /\ status[c] = 200 /\ Len(pending[c]) = 3 /\ RowsBy(c) = PendingRows(c)
        /\ status[d] = 500 /\ detail[d] = "IntegrityError" /\ Len(pending[d]) >= 2

\* C9 (Spec): a sync call whose connectivity test failed is over after that
\* one test: it made no further test and no fetch, staged and committed
\* nothing, has no row in the store, and the step of its failing test left
\* the store as it was.
C9_UnavailableFailsFast ==
    /\ [](\A c \in SyncCalls :
            TestFailed(c) =>
                /\ pc[c] = "Done"
                /\ Len(conn_tests[c]) = 1
                /\ fetches[c] = 0 /\ commits[c] = 0
                /\ payload[c] = <<>> /\ pending[c] = <<>>
                /\ RowsBy(c) = {})
    /\ [][\A c \in SyncCalls :
            (conn_tests'[c] # conn_tests[c] /\ TestFailed(c)')
                => UNCHANGED <<solar_readings, panel_readings>>]_vars

\* The connectivity test of a local and of the cloud sync failed, after the
\* other local sync had committed its rows.
C9_Witness ==
    /\ TestFailed("L1") /\ TestFailed("K1")
    /\ status["L2"] = 200 /\ Stored # {}

\* C10 (as claimed, SpecStats and Spec): a failure of the store during a
\* request is answered as a failure: a stats request whose query failed is
\* not answered with status 200, and a sync whose commit failed for the
\* store being unreachable ends with status 500.
C10_StoreFailureSurfaced ==
    /\ (StatsAnswered /\ http_response.body.period \in Periods /\ ~http_response.db_up)
          => http_response.code # 200
    /\ \A c \in SyncCalls :
          detail[c] = "OperationalError" => (status[c] = 500 /\ commits[c] = 1)

\* A power meter or inverter record with a numeric field that float() rejects.
Malformed(device) ==
    /\ device.DEVICE_TYPE \in {"Power Meter", "Inverter"}
    /\ \/ Float(DictGet(device.p_3phsum_kw, JNum(0))).err
       \/ Float(DictGet(device.voltage, JNum(0))).err

\* The records of the parsed list of this device type that are well formed.
WellFormed(type) ==
    {i \in DOMAIN parse_input :
        parse_input[i].DEVICE_TYPE = type /\ ~Malformed(parse_input[i])}

Serials(entries) == {entries[j].serial : j \in DOMAIN entries}

\* C11 (as claimed, SpecParse): for a device list with one malformed record,
\* parse_device_data returns a result, and the result holds every well-formed
\* power meter and inverter of the list.
C11_BadRecordIsolated ==
    ( /\ parse_result.called
      /\ Cardinality({i \in DOMAIN parse_input : Malformed(parse_input[i])}) = 1 )
    => /\ ~parse_result.raised
       /\ \A i \in WellFormed("Power Meter") :
            parse_input[i].SERIAL \in Serials(parse_result.data.power_meters)
       /\ \A i \in WellFormed("Inverter") :
            parse_input[i].SERIAL \in Serials(parse_result.data.inverters)

\* The records of the parsed list that are meters of a production subtype,
\* and those of a consumption subtype (and not of a production subtype).
ProductionMeters ==
    {i \in DOMAIN parse_input :
        /\ parse_input[i].DEVICE_TYPE = "Power Meter"
        /\ SubtypeHasProduction(parse_input[i].subtype)}
ConsumptionMeters ==
    {i \in DOMAIN parse_input :
        /\ parse_input[i].DEVICE_TYPE = "Power Meter"
        /\ ~SubtypeHasProduction(parse_input[i].subtype)
        /\ SubtypeHasConsumption(parse_input[i].subtype)}

\* parse_device_data returned a result for a list with one production meter
\* and one consumption meter.
OneMeterPair ==
    /\ parse_result.called /\ ~parse_result.raised
    /\ Cardinality(ProductionMeters) = 1
    /\ Cardinality(ConsumptionMeters) = 1

\* C12 (as claimed, SpecParse): the result has grid_kw = total_power_kw -
\* consumption_kw, and for one production meter of power p and one consumption
\* meter of power c, total_power_kw = p, consumption_kw = |c|, grid_kw = p - |c|.
C12_GridOfMeterPair ==
    /\ (parse_result.called /\ ~parse_result.raised)
         => parse_result.data.grid_kw
              = parse_result.data.total_power_kw - parse_result.data.consumption_kw
    /\ OneMeterPair =>
         \A i \in ProductionMeters, j \in ConsumptionMeters :
            LET p == parse_input[i].p_3phsum_kw.n
                c == parse_input[j].p_3phsum_kw.n
            IN  /\ parse_result.data.total_power_kw = p
                /\ parse_result.data.consumption_kw = Abs(c)
                /\ parse_result.data.grid_kw = p - Abs(c)

\* C12 (amended, SpecParse): every result has grid_kw = total_power_kw -
\* consumption_kw, and for one production meter of power p and one consumption
\* meter of power c, total_power_kw = max(0, p), consumption_kw = |c| and
\* grid_kw = max(0, p) - |c|.
C12_GridIsDifference ==
    /\ (parse_result.called /\ ~parse_result.raised)
         => parse_result.data.grid_kw
              = parse_result.data.total_power_kw - parse_result.data.consumption_kw
    /\ OneMeterPair =>
         \A i \in ProductionMeters, j \in ConsumptionMeters :
            LET p == parse_input[i].p_3phsum_kw.n
                c == parse_input[j].p_3phsum_kw.n
            IN  /\ parse_result.data.total_power_kw = Max(0, p)
                /\ parse_result.data.consumption_kw = Abs(c)
                /\ parse_result.data.grid_kw = Max(0, p) - Abs(c)

\* A list with a production meter reading below zero and a consumption meter
\* has been parsed, and the grid power came out negative.
C12_Witness ==
    /\ OneMeterPair
    /\ \E i \in ProductionMeters : parse_input[i].p_3phsum_kw.n < 0
    /\ parse_result.data.total_power_kw = 0
    /\ parse_result.data.grid_kw < 0

\* The Inverter records of a device list, in the order of the list.
InverterRecords(devices) == SelectSeq(devices, LAMBDA d : d.DEVICE_TYPE = "Inverter")

\* The rows of this table that the call has in the store.
StoredBy(c, tbl) == {e \in RowsBy(c) : e.tbl = tbl}

\* C13 (Spec): for the device list a local sync fetched and parsed, the
\* inverters of parse_device_data are the Inverter records of the list, one
\* entry each, in the order of the list, with power_w = 1000 * p_3phsum_kw;
\* the sync stages one reading followed by one panel reading per inverter in
\* that order, and once it answered success the store holds that one reading
\* and exactly that many panel readings of the call (none for a list without
\* inverters).
C13_OnePanelPerInverter ==
    \A c \in LocalCalls :
        (payload[c] # <<>> /\ ~parse_device_data(payload[c].devices).err) =>
            LET data == parse_device_data(payload[c].devices)
                records == InverterRecords(payload[c].devices)
            IN  /\ Len(data.inverters) = Len(records)
                /\ \A i \in DOMAIN records :
                     /\ data.inverters[i].serial = records[i].SERIAL
                     /\ data.inverters[i].power_w
                          = 100 * DictGet(records[i].p_3phsum_kw, JNum(0)).n
                /\ commits[c] > 0 =>
                     /\ Len(pending[c]) = 1 + Len(records)
                     /\ pending[c][1].tbl = SolarTable
                     /\ \A i \in DOMAIN records :
                          /\ pending[c][i + 1].tbl = PanelTable
                          /\ pending[c][i + 1].panel_id = records[i].SERIAL
                          /\ pending[c][i + 1].row.power_w = data.inverters[i].power_w
                /\ status[c] = 200 =>
                     /\ Cardinality(StoredBy(c, SolarTable)) = 1
                     /\ Cardinality(StoredBy(c, PanelTable)) = Len(records)

\* One local sync stored a reading with two panel readings for a list of two
\* inverters, the other stored a reading alone for a list without inverters.
C13_Witness ==
    \E c, d \in LocalCalls :
        /\ status[c] = 200
        /\ Len(InverterRecords(payload[c].devices)) = 2
        /\ Cardinality(StoredBy(c, PanelTable)) = 2
        /\ status[d] = 200
        /\ InverterRecords(payload[d].devices) = <<>>
        /\ Cardinality(StoredBy(d, SolarTable)) = 1
        /\ StoredBy(d, PanelTable) = {}

\* The stored readings the query of a stats request for this period selects.
Selected(period) == {e \in solar_readings : e.timestamp >= PeriodStart(period, now)}

\* p1 + ... + pN, and the exported part max(0, g1) + ... + max(0, gN).
RECURSIVE SumProduction(_)
SumProduction(readings) ==
    IF readings = {} THEN 0
    ELSE LET r == CHOOSE x \in readings : TRUE
         IN  r.row.production_kw + SumProduction(readings \ {r})

RECURSIVE SumExport(_)
SumExport(readings) ==
    IF readings = {} THEN 0
    ELSE LET r == CHOOSE x \in readings : TRUE
         IN  (IF r.row.grid_kw > 0 THEN r.row.grid_kw ELSE 0) + SumExport(readings \ {r})

\* A stats request for a valid period has been answered.
ValidStatsAnswered == StatsAnswered /\ http_response.body.period \in Periods

\* C14 (SpecStats): a stats request for a valid period whose query returned N
\* readings with productions p1..pN answers average_production_kw =
\* (p1 + ... + pN) / N and total_production_kwh = p1 + ... + pN; for N = 0 it
\* succeeds with every numeric field 0.
C14_AverageAndTotal ==
    (ValidStatsAnswered /\ http_response.db_up) =>
        LET body == http_response.body
            readings == Selected(body.period)
            N == Cardinality(readings)
            sum == SumProduction(readings)
        IN  /\ http_response.code = 200
            /\ body.average_production_kw.den # 0
            /\ N > 0 => /\ body.total_production_kwh = sum
                        /\ body.average_production_kw.num * N
                             = sum * body.average_production_kw.den
            /\ N = 0 => /\ body.total_production_kwh = 0
                        /\ body.total_consumption_kwh = 0
                        /\ body.total_export_kwh = 0
                        /\ body.total_import_kwh = 0
                        /\ body.self_consumption_rate.num = 0
                        /\ body.peak_production_kw = 0
                        /\ body.average_production_kw.num = 0

\* The store holds a reading inside and a reading outside the window of the
\* answered request, and the average is that of the one inside.
C14_Witness ==
    /\ ValidStatsAnswered /\ http_response.db_up
    /\ Cardinality(Selected(http_response.body.period)) = 1
    /\ Cardinality(solar_readings) = 2
    /\ http_response.body.average_production_kw = Frac(55, 1)

\* C15 (SpecStats): every stats response has self_consumption_rate =
\* (total_production - total_export) / total_production * 100 over the
\* readings of the query, a rate within [0, 100] whenever total_export <=
\* total_production, and a rate of exactly 0 whenever total_production = 0.
C15_SelfConsumptionRate ==
    ValidStatsAnswered =>
        LET body == http_response.body
            production == body.total_production_kwh
            export == body.total_export_kwh
            rate == body.self_consumption_rate
        IN  /\ rate.den > 0
            /\ http_response.db_up =>
                 /\ production = SumProduction(Selected(body.period))
                 /\ export = SumExport(Selected(body.period))
            /\ production > 0 => rate.num * production = (production - export) * 100 * rate.den
            /\ production = 0 => rate.num = 0
            /\ export <= production => (0 <= rate.num /\ rate.num <= 100 * rate.den)

\* A response over readings that export part of what they produce: the rate
\* lies strictly between 0 and 100.
C15_Witness ==
    /\ ValidStatsAnswered /\ http_response.db_up
    /\ http_response.body.total_export_kwh > 0
    /\ http_response.body.total_import_kwh > 0
    /\ http_response.body.total_export_kwh < http_response.body.total_production_kwh
    /\ http_response.body.self_consumption_rate.num > 0
    /\ http_response.body.self_consumption_rate.num
         < 100 * http_response.body.self_consumption_rate.den

\* The readings create_reading has answered with that carry this instant.
CreatedAt(t) == {body \in created : body.timestamp = t}

\* C16 (SpecCore): whatever creates and syncs ran besides, fetching the reading
\* of a timestamp that create_reading answered for returns the submitted
\* production_kw, consumption_kw, grid_kw, battery_kw and battery_soc:
\* get_readings with start = end = timestamp returns that reading alone, and
\* get_current_reading returns it when no stored reading is later.
C16_CreateThenFetch ==
    /\ ( /\ http_response.endpoint = "get_readings"
         /\ http_response.code = 200
         /\ http_response.body.start.some
         /\ http_response.body.end = http_response.body.start )
       => \A body \in CreatedAt(http_response.body.start.v) :
              http_response.body.rows = <<body>>
    /\ ( /\ http_response.endpoint = "get_current_reading"
         /\ http_response.code = 200 )
       => \A body \in created :
              (\A e \in solar_readings : e.timestamp <= body.timestamp)
                  => http_response.body = body

\* A reading with battery values was created, the import stored a later
\* reading and a sync its rows, and the created reading was fetched back by
\* its timestamp.
C16_Witness ==
    /\ http_response.endpoint = "get_readings"
    /\ http_response.code = 200
    /\ http_response.body.start = Some(0)
    /\ http_response.body.end = Some(0)
    /\ \E body \in created : body.battery_soc = Some(80) /\ http_response.body.rows = <<body>>
    /\ \E e \in solar_readings : e.by = Importer /\ e.timestamp > 0
    /\ \E c \in SyncCalls : status[c] # 0

\* C20 (SpecCore): committed readings are append-only: no step of a create
\* route, the local sync, the cloud sync, the historical import, the
\* statistics route or a read route removes a stored row or changes a field
\* of one; the set of stored rows only grows.
C20_AppendOnly ==
    [][ /\ solar_readings \subseteq solar_readings'
        /\ panel_readings \subseteq panel_readings' ]_vars

\* The store holds rows of a sync, of the import and of a create route, and
\* a query over them was answered.
C20_Witness ==
    /\ \E e \in solar_readings : e.by \in SyncCalls
    /\ \E e \in solar_readings : e.by = Importer
    /\ \E e \in panel_readings : e.by = "create_panel_reading"
    /\ http_response.endpoint \in {"get_energy_stats", "get_readings", "get_current_reading"}
    /\ http_response.code = 200

\* The broadcast message has been delivered to this socket.
Received(w) == \E i \in DOMAIN sent[w] : sent[w][i] = "solar_update"

\* C17 (SpecBroadcast): when a broadcast is over, every subscriber of its
\* snapshot whose send failed is out of the active connection set and every
\* other subscriber of the snapshot has received the message; a step of the
\* broadcast removes no subscriber but those whose send failed.
C17_FailedSubscriberDropped ==
    /\ [](\A b \in Broadcasts :
            bc[b].pc = "Done" =>
                /\ bc[b].disconnected \cap active_connections = {}
                /\ \A w \in bc[b].snapshot \ bc[b].disconnected : Received(w))
    /\ [][\A b \in Broadcasts :
            bc'[b] # bc[b] =>
                (active_connections \ active_connections') \subseteq bc[b].disconnected]_vars

\* A broadcast to three subscribers is over: the send to one failed and it
\* was removed, the other two received the message and one is still
\* registered.
C17_Witness ==
    \E b \in Broadcasts :
        /\ bc[b].pc = "Done"
        /\ Cardinality(bc[b].snapshot) = 3
        /\ Cardinality(bc[b].disconnected) = 1
        /\ \E w \in bc[b].snapshot \ bc[b].disconnected : w \in active_connections

\* C18 (as claimed, SpecBroadcast): a subscriber whose send does not complete
\* holds nothing up: while the broadcast waits on it, the broadcast has been
\* delivered to every other subscriber of the snapshot whose transport is open.
C18_SlowSubscriberHoldsNothingUp ==
    \A b \in Broadcasts :
        (bc[b].pc = "Sending" /\ link[bc[b].sending] = "stalled") =>
            \A w \in bc[b].snapshot \ {bc[b].sending} :
                link[w] = "open" => Received(w)

\* What the endpoint sends for what it handled, in order.
RECURSIVE Answers(_)
Answers(frames) ==
    IF frames = <<>> THEN <<>>
    ELSE (CASE Head(frames) \in {"request_data", "timeout"} -> <<"current_data">>
            [] Head(frames) = "ping" -> <<"pong">>
            [] OTHER -> <<>>) \o Answers(Tail(frames))

\* The frames of the endpoint (not of a broadcast) delivered to the client.
EndpointFrames(w) == SelectSeq(sent[w], LAMBDA f : f \in {"current_data", "pong"})

\* What the endpoint handled and has finished answering.
Finished(w) ==
    IF ep[w] = "Answering" THEN SubSeq(handled[w], 1, Len(handled[w]) - 1) ELSE handled[w]

\* C19 (SpecEndpoint): on a connection whose transport is open, the frames
\* the endpoint sent are, in order, one current_data per request_data, one
\* pong per ping and one current_data per idle interval it handled; after an
\* idle interval the endpoint is still connected and registered, it ends only
\* on a frame that is not JSON.
C19_OneAnswerPerRequest ==
    \A w \in Talkers :
        link[w] = "open" =>
            /\ EndpointFrames(w) = Answers(Finished(w))
            /\ ep[w] = "Answering" => <<reply[w]>> = Answers(<<handled[w][Len(handled[w])]>>)
            /\ ep[w] = "Closed" => handled[w][Len(handled[w])] = "malformed"
            /\ ep[w] \in {"Receiving", "Answering"} => w \in active_connections

\* A ping, an idle interval and a request were answered pong, current_data,
\* current_data, with a broadcast delivered in between, and the endpoint
\* waits for the next frame.
C19_Witness ==
    \E w \in Talkers :
        /\ link[w] = "open"
        /\ handled[w] = <<"ping", "timeout", "request_data">>
        /\ EndpointFrames(w) = <<"pong", "current_data", "current_data">>
        /\ Received(w)
        /\ ep[w] = "Receiving"

\* The greatest number of a non-empty set of numbers.
MaxOf(S) == CHOOSE x \in S : \A y \in S : y <= x

\* The power_kw of the production meters of the parsed list.
ProductionPowers ==
    {Float(DictGet(parse_input[i].p_3phsum_kw, JNum(0))).v : i \in ProductionMeters}

\* parse_device_data returned a result.
Parsed == parse_result.called /\ ~parse_result.raised

\* C21 (as claimed, SpecParse): total_power_kw of the result is the greatest
\* power_kw among the production meters of the list, and 0 for a list
\* without a production meter.
C21_ProductionIsMaxOfMeters ==
    Parsed =>
        parse_result.data.total_power_kw
            = IF ProductionPowers = {} THEN 0 ELSE MaxOf(ProductionPowers)

\* C21 (amended, SpecParse): total_power_kw of the result is the greatest of
\* 0 and the power_kw of the production meters of the list: 0 for a list
\* without a production meter, and 0 as well when every production meter
\* reads below zero.
C21_ProductionIsMaxAboveZero ==
    Parsed => parse_result.data.total_power_kw = MaxOf(ProductionPowers \cup {0})

\* A list of three production meters, the greatest first and one reading
\* below zero, has been parsed to the power of the greatest.
C21_Witness ==
    /\ Parsed
    /\ parse_input = <<ProductionMeter, ProductionMeter2, NightMeter>>
    /\ parse_result.data.total_power_kw = 55

InWindow(period) ==
    {e \in solar_readings :
        PeriodStart(period, now) <= e.timestamp /\ e.timestamp <= now}

\* C23 (as claimed, SpecStats): the totals and the peak of a stats response
\* for a valid period are those of the stored readings whose timestamp lies
\* in [start, now]; a reading before start or after now contributes nothing.
C23_WindowedStats ==
    (ValidStatsAnswered /\ http_response.db_up) =>
        LET body == http_response.body
            readings == InWindow(body.period)
            total == Totals(readings)
        IN  /\ body.total_production_kwh = total.production
            /\ body.total_consumption_kwh = total.consumption
            /\ body.total_export_kwh = total.export
            /\ body.total_import_kwh = total.import
            /\ body.peak_production_kw
                 = MaxOf({e.row.production_kw : e \in readings} \cup {0})

\* The outcomes of the iterations the polling loop has been through.
Outcomes == {monitor.log[i] : i \in DOMAIN monitor.log}

\* C24 (FairMonitor): the polling loop never leaves its `while True`, whatever
\* an iteration ran into (a fetch that failed or timed out, a device list that
\* does not parse, a callback that raised): it is never stopped, and again
\* and again it sleeps and again and again it starts a fetch.
C24_LoopGoesOn ==
    /\ [](monitor.pc \in {"Fetching", "Calling", "Sleeping"})
    /\ []<>(monitor.pc = "Sleeping")
    /\ []<>(monitor.pc = "Fetching")

\* After an iteration whose fetch timed out, one whose device list did not
\* parse and one whose callback raised, the loop is fetching again.
C24_Witness ==
    /\ monitor.pc = "Fetching"
    /\ {"TimeoutException", "ValueError", "CallbackError"} \subseteq Outcomes

\* C25 (as claimed, SpecLog): when the worker thread of a closed handler ends,
\* every record emitted before close() has been handed to a database write:
\* none is left on the queue or in the worker's batch.
C25_DrainedBeforeStop ==
    worker = "Stopped" =>
        /\ log_queue = 0
        /\ batch = 0
        /\ written = emitted

\* C26 (SpecEndpoint): a socket whose endpoint has ended (the client went
\* away, a frame was not JSON, a send failed and the next receive raised) is
\* not in the active connection set; disconnect is idempotent: the step in
\* which an endpoint ends for a socket that was already removed leaves the
\* set as it was, and removing a socket twice is removing it once.
C26_EndedEndpointUnregistered ==
    /\ [](\A w \in Sockets : ep[w] = "Closed" => w \notin active_connections)
    /\ [](\A w \in Sockets :
            Disconnect(Disconnect(active_connections, w), w)
                = Disconnect(active_connections, w))
    /\ [][\A w \in Sockets :
            (ep[w] # "Closed" /\ ep'[w] = "Closed" /\ w \notin active_connections)
                => active_connections' = active_connections]_vars

\* The endpoint of a socket ended after the client had gone away and a
\* broadcast had already removed the socket for its failed send, having
\* answered a request before.
C26_Witness ==
    \E w \in Talkers, b \in Broadcasts :
        /\ ep[w] = "Closed"
        /\ link[w] = "broken"
        /\ bc[b].pc = "Done" /\ w \in bc[b].disconnected
        /\ EndpointFrames(w) # <<>>

\* The broadcast has taken its copy of the connection set and not returned.
InProgress(b) == bc[b].pc \in {"Looping", "Sending"}

\* C27 (SpecBroadcast): while a broadcast is in progress a connect and a
\* disconnect are not held up (their step is enabled); a socket that is not
\* in the broadcast's copy of the connection set never receives its message;
\* a step of the broadcast adds no socket to the active set (one removed by
\* disconnect meanwhile stays removed) and removes none that is not in its
\* copy.
C27_LockFreeWhileSending ==
    /\ [](\A b \in Broadcasts, w \in Sockets :
            /\ (InProgress(b) /\ ep[w] = "Idle" /\ link[w] # "stalled")
                  => ENABLED endpoint_connect(w)
            /\ (InProgress(b) /\ ep[w] = "Receiving" /\ link[w] = "broken")
                  => ENABLED endpoint_receive(w)
            /\ (bc[b].pc # "Idle" /\ w \notin bc[b].snapshot) => ~Received(w))
    /\ [][\A b \in Broadcasts :
            bc'[b] # bc[b] =>
                /\ active_connections' \subseteq active_connections
                /\ (active_connections \ active_connections') \subseteq bc[b].snapshot]_vars

\* A broadcast is over: a socket that connected after the copy was taken is
\* registered and did not receive the message, a socket of the copy received
\* it and was then removed by its own endpoint, and one was removed for its
\* failed send.
C27_Witness ==
    \E b \in Broadcasts :
        /\ bc[b].pc = "Done"
        /\ \E w \in active_connections \ bc[b].snapshot : ~Received(w)
        /\ \E v \in bc[b].snapshot \ bc[b].disconnected :
              Received(v) /\ ep[v] = "Closed" /\ v \notin active_connections
        /\ bc[b].disconnected # {}

\* C28 (as claimed, SpecImport): when an import run that processed its series
\* is over, imported_count is the number of readings of the run that are in
\* the store, also when an intermediate or the final commit failed, and no
\* item was counted twice: imported_count + skipped_count is the number of
\* items.
C28_ImportedAreCommitted ==
    (pc[Importer] = "Done" /\ readings_data # <<>>) =>
        /\ imported_count = Cardinality(RowsBy(Importer))
        /\ imported_count + skipped_count = Len(readings_data)

\* C30 (as claimed, Spec): a cloud sync call that answered success has stored
\* exactly one reading, built from the currentPower it fetched.
C30_SuccessMeansStored ==
    \A c \in CloudCalls :
        status[c] = 200 =>
            /\ payload[c] # <<>>
            /\ Cardinality(RowsBy(c)) = 1
            /\ \A e \in RowsBy(c) : Ok(e.row) = CloudReading(payload[c])

\* C29 (SpecLocal): for the device list a local sync fetched and parsed,
\* total_power_kw >= 0, consumption_kw >= 0 and max(0, grid_kw) <=
\* total_power_kw, the reading built from them passes the validation of
\* SolarReadingCreate (a sync is rejected by validation only for a panel
\* reading), and a stats response over a store of local sync readings has
\* total_export <= total_production and a self-consumption rate in [0, 100].
C29_LocalReadingInRange ==
    /\ \A c \in LocalCalls :
         (payload[c] # <<>> /\ ~parse_device_data(payload[c].devices).err) =>
            LET data == parse_device_data(payload[c].devices)
            IN  /\ data.total_power_kw >= 0
                /\ data.consumption_kw >= 0
                /\ Max(0, data.grid_kw) <= data.total_power_kw
                /\ ~SolarReadingCreate(now, data.total_power_kw, data.consumption_kw,
                                       data.grid_kw, None, None).err
                /\ detail[c] = "ValidationError" =>
                      \E i \in DOMAIN payload[c].devices :
                          InverterRejected(payload[c].devices[i])
    /\ (StatsAnswered /\ \A e \in solar_readings : e.by \in LocalCalls) =>
         LET body == http_response.body
         IN  /\ body.total_export_kwh <= body.total_production_kwh
             /\ body.self_consumption_rate.den > 0
             /\ 0 <= body.self_consumption_rate.num
             /\ body.self_consumption_rate.num <= 100 * body.self_consumption_rate.den

\* Two local syncs stored their readings, one taken with the production meter
\* below zero and power drawn from the grid, and the statistics over the two
\* have an export below the production.
C29_Witness ==
    /\ \A c \in LocalCalls : status[c] = 200
    /\ \E e \in solar_readings : e.row.production_kw = 0 /\ e.row.grid_kw < 0
    /\ StatsAnswered /\ http_response.db_up
    /\ http_response.body.total_import_kwh > 0
    /\ http_response.body.total_export_kwh > 0
    /\ http_response.body.total_export_kwh < http_response.body.total_production_kwh

====
